---- MODULE Spec2Model ----
(***************************************************************************)
(* Model of the structural markdown editing engine of obsidian-mcp-server: *)
(* heading discovery, section bounds, the heading-scoped edits, the note   *)
(* path sandbox and the frontmatter operations.                            *)
(*                                                                         *)
(* A text is a sequence of one-character strings.  Offsets are 0-based as  *)
(* in the Python source; the character at offset o is text[o + 1].         *)
(***************************************************************************)
EXTENDS Integers, Sequences, FiniteSets, TLC

\* files:    the regular files on disk, absolute path -> content as stored
\* symlinks: the symbolic links on disk, absolute path -> absolute target
\* dirs:     the directories on disk, a set of absolute paths
\* last:     the outcome of the most recent tool call
\* _ACTIVE_VAULTS: the session map of the server process, key -> vault name
\* sessions: the session objects alive in the process, session -> record
\* pending:  the tool calls in flight, caller -> what the call has read
VARIABLES files, symlinks, dirs, last, _ACTIVE_VAULTS, sessions, pending

vars == <<files, symlinks, dirs, last, _ACTIVE_VAULTS, sessions, pending>>

\* the state of the server process outside the vault
server == <<_ACTIVE_VAULTS, sessions, pending>>

\* a server that has seen no session and runs no call
ServerAtStart ==
  /\ _ACTIVE_VAULTS = [k \in {} |-> ""]
  /\ sessions = [s \in {} |-> 0]
  /\ pending = [c \in {} |-> 0]

(***************************************************************************)
(* Characters and Python string helpers                                    *)
(***************************************************************************)
NL == "\n"
CR == "\r"
SP == " "
HASH == "#"

\* str.isspace() / regex \s for the characters of the model's alphabet
IsWs(c) == c \in {SP, NL, CR, "\t"}

\* str.lower() on one character (the upper-case letters of the alphabet)
LowerChar(c) ==
  CASE c = "A" -> "a"
    [] c = "B" -> "b"
    [] c = "D" -> "d"
    [] c = "M" -> "m"
    [] c = "S" -> "s"
    [] c = "T" -> "t"
    [] OTHER -> c

Lower(s) == [i \in 1..Len(s) |-> LowerChar(s[i])]

\* text[a:b] with 0-based, end-exclusive offsets (clamped like a Python slice)
Slice(s, a, b) ==
  LET hi == IF b > Len(s) THEN Len(s) ELSE b
  IN  IF a >= hi THEN <<>> ELSE [i \in 1..(hi - a) |-> s[a + i]]

StartsWith(s, p) == Len(s) >= Len(p) /\ Slice(s, 0, Len(p)) = p

EndsWith(s, p) == Len(s) >= Len(p) /\ Slice(s, Len(s) - Len(p), Len(s)) = p

\* number of leading / trailing characters of s that belong to cs
LeadCount(s, cs) ==
  IF \A i \in 1..Len(s) : s[i] \in cs THEN Len(s)
  ELSE (CHOOSE i \in 1..Len(s) : s[i] \notin cs /\ \A j \in 1..(i - 1) : s[j] \in cs) - 1

TrailCount(s, cs) ==
  IF \A i \in 1..Len(s) : s[i] \in cs THEN Len(s)
  ELSE Len(s) - (CHOOSE i \in 1..Len(s) : s[i] \notin cs /\ \A j \in (i + 1)..Len(s) : s[j] \in cs)

\* str.lstrip(chars) / str.rstrip(chars) / str.strip()
LStrip(s, cs) == Slice(s, LeadCount(s, cs), Len(s))

RStrip(s, cs) == Slice(s, 0, Len(s) - TrailCount(s, cs))

WsChars == {SP, NL, CR, "\t"}

Strip(s) == LStrip(RStrip(s, WsChars), WsChars)

(***************************************************************************)
(* HeadingIndex: HEADING_PATTERN = ^(#{1,6})\s+(.+?)\s*$ with re.MULTILINE *)
(***************************************************************************)
\* '^' under re.MULTILINE: offset 0 or just after a "\n"
AtLineStart(text, o) == o = 0 \/ text[o] = NL

\* '$' under re.MULTILINE: end of text or just before a "\n"
AtLineEnd(text, o) == o = Len(text) \/ text[o + 1] = NL

\* length of the run of characters of cs that starts at offset o
RunLen(text, o, cs) == LeadCount(Slice(text, o, Len(text)), cs)

\* `(.+?)\s*$` started at offset s: the lazy title ends at the first offset t > s
\* from which whitespace alone reaches a line end; `\s*` is greedy, so the match
\* ends at the last line end p inside that whitespace run.  '.' excludes "\n".
TitleEnds(text, s) ==
  {t \in (s + 1)..Len(text) :
     /\ \A o \in s..(t - 1) : text[o + 1] # NL
     /\ \E p \in t..(t + RunLen(text, t, WsChars)) : AtLineEnd(text, p)}

Min(S) == CHOOSE x \in S : \A y \in S : x <= y

Max(S) == CHOOSE x \in S : \A y \in S : x >= y

MatchEnd(text, t) ==
  Max({p \in t..(t + RunLen(text, t, WsChars)) : AtLineEnd(text, p)})

\* `\s+` is greedy and backtracks: the widths k (at least 1) of the whitespace
\* after the hashes for which the rest of the pattern matches
WsWidths(text, j) ==
  {k \in 1..RunLen(text, j, WsChars) : TitleEnds(text, j + k) # {}}

\* the match of HEADING_PATTERN anchored at offset i, or ok = FALSE
HeadingMatchAt(text, i) ==
  LET h == RunLen(text, i, {HASH})
      j == i + h
  IN  IF ~AtLineStart(text, i) \/ h < 1 \/ h > 6 \/ WsWidths(text, j) = {}
      THEN [ok |-> FALSE, start |-> i, hashes |-> 0, tstart |-> 0, tend |-> 0,
            mend |-> 0]
      ELSE LET k == Max(WsWidths(text, j))
               t == Min(TitleEnds(text, j + k))
           IN  [ok |-> TRUE, start |-> i, hashes |-> h, tstart |-> j + k, tend |-> t,
                mend |-> MatchEnd(text, t)]

\* " ".join(value.strip().split()).lower()
RECURSIVE CollapseWs(_)
CollapseWs(s) ==
  IF s = <<>> THEN <<>>
  ELSE IF IsWs(s[1])
       THEN LET rest == LStrip(s, WsChars)
            IN  IF rest = <<>> THEN <<>> ELSE <<SP>> \o CollapseWs(rest)
       ELSE <<s[1]>> \o CollapseWs(Tail(s))

_normalize_heading_key(value) == Lower(CollapseWs(Strip(value)))

\* end of the heading record: the match end extended over one line terminator
ExtendEnd(text, e) ==
  IF Slice(text, e, e + 2) = <<CR, NL>> THEN e + 2
  ELSE IF e < Len(text) /\ text[e + 1] \in {NL, CR} THEN e + 1
  ELSE e

\* the record _parse_headings appends for the match m
HeadingRecord(text, m) ==
  LET title == Strip(Slice(text, m.tstart, m.tend))
  IN  [level |-> m.hashes, title |-> title,
       normalized |-> _normalize_heading_key(title),
       start |-> m.start, end |-> ExtendEnd(text, m.mend)]

\* HEADING_PATTERN.finditer(text) from offset `from`: leftmost match first, the
\* scan resumes at the end of the match
RECURSIVE ParseFrom(_, _)
ParseMatch(text, m) == <<HeadingRecord(text, m)>> \o ParseFrom(text, m.mend)

ParseFirst(text, starts) ==
  IF starts = {} THEN <<>> ELSE ParseMatch(text, HeadingMatchAt(text, Min(starts)))

ParseFrom(text, from) ==
  ParseFirst(text, {i \in from..(Len(text) - 1) : HeadingMatchAt(text, i).ok})

_parse_headings(text) == ParseFrom(text, 0)

\* mutant of FirstIndex: the last heading with the key wins
LastIndex(headings, target, i) ==
  IF \A j \in i..Len(headings) : headings[j].normalized # target THEN 0
  ELSE Max({j \in i..Len(headings) : headings[j].normalized = target})

\* _locate_heading: the first heading, in document order, whose normalized key
\* equals the normalized query (0 when there is none; indexes are 1-based here)
RECURSIVE FirstIndex(_, _, _)
FirstIndex(headings, target, i) ==
  IF i > Len(headings) THEN 0
  ELSE IF headings[i].normalized = target THEN i
  ELSE FirstIndex(headings, target, i + 1)

LocateIn(headings, target) ==
  [found |-> FirstIndex(headings, target, 1) # 0,
   index |-> FirstIndex(headings, target, 1), headings |-> headings]

_locate_heading(text, heading) ==
  LocateIn(_parse_headings(text), _normalize_heading_key(heading))

\* _section_bounds: forward scan over headings[index + 1:]
RECURSIVE ScanEnd(_, _, _, _)
ScanEnd(headings, level, i, text_length) ==
  IF i > Len(headings) THEN text_length
  ELSE IF headings[i].level <= level THEN headings[i].start
  ELSE ScanEnd(headings, level, i + 1, text_length)

\* mutant of _section_bounds: only a strictly higher-level heading ends a section
section_bounds_strict(headings, index, text_length) ==
  LET later == {j \in (index + 1)..Len(headings) :
                  headings[j].level < headings[index].level}
  IN  [start |-> headings[index].end,
       end |-> IF later = {} THEN text_length ELSE headings[Min(later)].start]

_section_bounds(headings, index, text_length) ==
  [start |-> headings[index].end,
   end |-> ScanEnd(headings, headings[index].level, index + 1, text_length)]

(***************************************************************************)
(* SectionEditor: the text each operation writes, given the text it read   *)
(* and a located heading                                                   *)
(***************************************************************************)
CRNL == {CR, NL}

\* mutant of InsertAfterText: the trailing newline is never added
InsertAfterTextNoSuffix(text, info, content) ==
  LET before == Slice(text, 0, info.end)
      after == Slice(text, info.end, Len(text))
  IN  before
      \o (IF content # <<>> /\ ~EndsWith(before, <<NL>>) /\ ~StartsWith(content, <<NL>>)
          THEN <<NL>> \o content ELSE content)
      \o after

InsertAfterText(text, info, content) ==
  LET before == Slice(text, 0, info.end)
      after == Slice(text, info.end, Len(text))
      ins1 == IF content # <<>> /\ before # <<>> /\ ~EndsWith(before, <<NL>>)
                 /\ ~StartsWith(content, <<NL>>)
              THEN <<NL>> \o content ELSE content
      ins2 == IF content # <<>> /\ ~EndsWith(ins1, <<NL>>) /\ after # <<>>
                 /\ ~StartsWith(after, <<NL>>)
              THEN ins1 \o <<NL>> ELSE ins1
  IN  before \o ins2 \o after

\* mutant of ReplaceSectionText: the section ends at the next heading of any level
ReplaceSectionTextFlat(text, headings, index, content) ==
  LET stop == IF index + 1 <= Len(headings) THEN headings[index + 1].start ELSE Len(text)
      before == Slice(text, 0, headings[index].end)
      after == Slice(text, stop, Len(text))
      rep == RStrip(content, CRNL)
  IN  before \o rep \o (IF after # <<>> THEN <<NL, NL>> ELSE IF rep # <<>> THEN <<NL>> ELSE <<>>)
      \o after

\* mutant of ReplaceSectionText: one newline, no blank line, before what follows
ReplaceSectionTextTight(text, headings, index, content) ==
  LET b == _section_bounds(headings, index, Len(text))
      before == Slice(text, 0, b.start)
      after == Slice(text, b.end, Len(text))
      rep == RStrip(content, CRNL)
  IN  before \o rep \o (IF rep # <<>> THEN <<NL>> ELSE <<>>) \o after

ReplaceSectionText(text, headings, index, content) ==
  LET b == _section_bounds(headings, index, Len(text))
      before == Slice(text, 0, b.start)
      after == LStrip(Slice(text, b.end, Len(text)), CRNL)
      rep0 == RStrip(content, CRNL)
      rep1 == IF before # <<>> /\ rep0 # <<>> /\ ~EndsWith(before, <<NL>>)
                 /\ ~StartsWith(rep0, <<NL>>)
              THEN <<NL>> \o rep0 ELSE rep0
      rep2 == IF after # <<>>
              THEN RStrip(rep1, {NL}) \o <<NL, NL>>
              ELSE IF rep1 # <<>> /\ ~EndsWith(rep1, <<NL>>)
                   THEN rep1 \o <<NL>> ELSE rep1
  IN  before \o rep2 \o after

\* re.sub(r"\n{3,}", "\n\n", s)
RECURSIVE CollapseNewlines(_)
CollapseNewlines(s) ==
  IF s = <<>> THEN <<>>
  ELSE IF s[1] = NL
       THEN LET n == LeadCount(s, {NL})
            IN  (IF n >= 3 THEN <<NL, NL>> ELSE Slice(s, 0, n))
                \o CollapseNewlines(Slice(s, n, Len(s)))
       ELSE <<s[1]>> \o CollapseNewlines(Tail(s))

\* mutant of DeleteSectionText: the blank-line cleanup is left out
DeleteSectionTextRaw(text, headings, index) ==
  LET b == _section_bounds(headings, index, Len(text))
  IN  Slice(text, 0, headings[index].start) \o Slice(text, b.end, Len(text))

\* mutant of DeleteSectionText: the line terminators before the removed
\* heading go with it
DeleteSectionTextTrim(text, headings, index) ==
  LET b == _section_bounds(headings, index, Len(text))
  IN  CollapseNewlines(RStrip(Slice(text, 0, headings[index].start), {NL})
                       \o Slice(text, b.end, Len(text)))

DeleteSectionText(text, headings, index) ==
  LET b == _section_bounds(headings, index, Len(text))
  IN  CollapseNewlines(Slice(text, 0, headings[index].start)
                       \o Slice(text, b.end, Len(text)))

\* mutant of AppendToSectionText: the content goes to the end of the whole
\* section, after its nested subsections
AppendToSectionTextDeep(text, headings, index, content) ==
  LET b == _section_bounds(headings, index, Len(text))
      before == Slice(text, 0, b.end)
      after == Slice(text, b.end, Len(text))
      ins0 == RStrip(content, CRNL)
      ins1 == IF EndsWith(before, <<NL>>) THEN ins0 ELSE <<NL>> \o ins0
      ins2 == IF after # <<>> THEN ins1 \o <<NL, NL>> ELSE ins1 \o <<NL>>
  IN  IF ins0 = <<>> THEN text ELSE before \o ins2 \o after

\* mutant of AppendToSectionText: the leading newlines of the content are kept
\* after a body that ends in a blank line
AppendToSectionTextKeep(text, headings, index, content) ==
  LET info == headings[index]
      insertion_pos == IF index + 1 <= Len(headings)
                       THEN headings[index + 1].start ELSE Len(text)
      section_body == Slice(text, info.end, insertion_pos)
      before == Slice(text, 0, insertion_pos)
      after == Slice(text, insertion_pos, Len(text))
      ins0 == RStrip(content, CRNL)
      ins1 == IF section_body # <<>>
              THEN IF EndsWith(section_body, <<NL, NL>>) THEN ins0
                   ELSE IF EndsWith(section_body, <<NL>>)
                        THEN IF StartsWith(ins0, <<NL>>) THEN ins0 ELSE <<NL>> \o ins0
                        ELSE <<NL, NL>> \o LStrip(ins0, {NL})
              ELSE IF ~EndsWith(before, <<NL>>)
                   THEN <<NL>> \o LStrip(ins0, {NL}) ELSE ins0
      ins2 == IF EndsWith(ins1, <<NL>>) THEN ins1 ELSE ins1 \o <<NL>>
      ins3 == IF after # <<>> /\ ~(after[1] \in CRNL) THEN ins2 \o <<NL>> ELSE ins2
  IN  IF ins0 = <<>> THEN text ELSE before \o ins3 \o after

AppendToSectionText(text, headings, index, content) ==
  LET info == headings[index]
      insertion_pos == IF index + 1 <= Len(headings)
                       THEN headings[index + 1].start ELSE Len(text)
      section_body == Slice(text, info.end, insertion_pos)
      before == Slice(text, 0, insertion_pos)
      after == Slice(text, insertion_pos, Len(text))
      ins0 == RStrip(content, CRNL)
      ins1 == IF section_body # <<>>
              THEN IF EndsWith(section_body, <<NL, NL>>) THEN LStrip(ins0, {NL})
                   ELSE IF EndsWith(section_body, <<NL>>)
                        THEN IF StartsWith(ins0, <<NL>>) THEN ins0 ELSE <<NL>> \o ins0
                        ELSE <<NL, NL>> \o LStrip(ins0, {NL})
              ELSE IF ~EndsWith(before, <<NL>>)
                   THEN <<NL>> \o LStrip(ins0, {NL}) ELSE ins0
      ins2 == IF EndsWith(ins1, <<NL>>) THEN ins1 ELSE ins1 \o <<NL>>
      ins3 == IF after # <<>> /\ ~(after[1] \in CRNL) THEN ins2 \o <<NL>> ELSE ins2
  IN  IF ins0 = <<>> THEN text ELSE before \o ins3 \o after

(***************************************************************************)
(* File I/O: Path.read_text / Path.write_text in text mode                 *)
(***************************************************************************)
\* read_text decodes with universal newlines: "\r\n" and a lone "\r" are read
\* as "\n"
RECURSIVE ReadText(_)
ReadText(disk) ==
  IF disk = <<>> THEN <<>>
  ELSE IF disk[1] = CR
       THEN IF Len(disk) >= 2 /\ disk[2] = NL
            THEN <<NL>> \o ReadText(Slice(disk, 2, Len(disk)))
            ELSE <<NL>> \o ReadText(Tail(disk))
       ELSE <<disk[1]>> \o ReadText(Tail(disk))

(***************************************************************************)
(* PathResolver.  A path is a sequence of segment names, a segment name a  *)
(* sequence of characters; an absolute path lists its segments from "/".   *)
(***************************************************************************)
SLASH == "/"
DOT == <<".">>
DOTDOT == <<".", ".">>
MD == <<".", "m", "d">>

\* str.split(sep): the pieces between the separators, empty pieces included
RECURSIVE Split(_, _)
Split(s, sep) ==
  IF \A i \in 1..Len(s) : s[i] # sep THEN <<s>>
  ELSE LET i == Min({k \in 1..Len(s) : s[k] = sep})
       IN  <<Slice(s, 0, i - 1)>> \o Split(Slice(s, i, Len(s)), sep)

\* parts without the segments that belong to drop, in order
RECURSIVE DropSegments(_, _)
DropSegments(parts, drop) ==
  IF parts = <<>> THEN <<>>
  ELSE (IF Head(parts) \in drop THEN <<>> ELSE <<Head(parts)>>)
       \o DropSegments(Tail(parts), drop)

\* pathlib.Path(*parts): empty and "." segments vanish, ".." stays
PurePath(parts) == DropSegments(parts, {<<>>, DOT})

\* construct_note_path: no validation, `.md` appended to the last piece
construct_note_path(identifier) ==
  LET parts == Split(identifier, SLASH)
      leaf_with_extension == parts[Len(parts)] \o MD
  IN  PurePath(SubSeq(parts, 1, Len(parts) - 1)) \o <<leaf_with_extension>>

\* Path.resolve(strict=False): segments are walked left to right, ".." drops
\* the last resolved segment, a symbolic link is replaced by its target
RECURSIVE Walk(_, _, _)
Walk(links, cur, rest) ==
  IF rest = <<>> THEN cur
  ELSE IF Head(rest) = DOTDOT
       THEN Walk(links, SubSeq(cur, 1, Len(cur) - 1), Tail(rest))
       ELSE LET nxt == Append(cur, Head(rest))
            IN  IF nxt \in DOMAIN links
                THEN Walk(links, <<>>, links[nxt] \o Tail(rest))
                ELSE Walk(links, nxt, Tail(rest))

Resolve(links, path) == Walk(links, <<>>, path)

\* Path.is_relative_to(root)
IsRelativeTo(path, root) ==
  Len(path) >= Len(root) /\ SubSeq(path, 1, Len(root)) = root

\* mutant of resolve_note_path: the sandbox check is lexical, links are not followed
resolve_note_path_lexical(links, vault_path, title) ==
  LET candidate == Walk(<<>>, <<>>, vault_path \o construct_note_path(title))
  IN  IF ~IsRelativeTo(candidate, vault_path)
      THEN [ok |-> FALSE, error |-> "escapes_vault", path |-> <<>>, fs |-> TRUE]
      ELSE [ok |-> TRUE, error |-> "", path |-> candidate, fs |-> TRUE]

\* core resolve_note_path: construction, then the filesystem-level sandbox check
resolve_note_path(links, vault_path, title) ==
  LET relative == construct_note_path(title)
      candidate == Resolve(links, vault_path \o relative)
      vault_root == Resolve(links, vault_path)
  IN  IF ~IsRelativeTo(candidate, vault_root)
      THEN [ok |-> FALSE, error |-> "escapes_vault", path |-> <<>>, fs |-> TRUE]
      ELSE [ok |-> TRUE, error |-> "", path |-> candidate, fs |-> TRUE]

\* BaseNoteInput.validate_title (the Pydantic validator of the tool boundary)
validate_title(v) ==
  LET cleaned == Strip(v)
      parts == Split(cleaned, SLASH)
      stripped == IF EndsWith(cleaned, MD) THEN Slice(cleaned, 0, Len(cleaned) - 3)
                  ELSE cleaned
  IN  IF Len(v) < 1 \/ cleaned = <<>> THEN [ok |-> FALSE, title |-> <<>>]
      ELSE IF \E i \in 1..Len(parts) : parts[i] \in {DOT, DOTDOT}
           THEN [ok |-> FALSE, title |-> <<>>]
      ELSE IF cleaned[1] = SLASH THEN [ok |-> FALSE, title |-> <<>>]
      ELSE IF stripped = <<>> THEN [ok |-> FALSE, title |-> <<>>]
      ELSE [ok |-> TRUE, title |-> stripped]

\* core normalize_note_identifier: the deprecated wrapper of
\* construct_note_path; the path it builds from the pieces of a split on "/"
\* is never absolute
normalize_note_identifier(identifier) ==
  LET cleaned == Strip(identifier)
      cut == IF EndsWith(cleaned, MD) THEN Slice(cleaned, 0, Len(cleaned) - 3)
             ELSE cleaned
      parts == Split(cut, SLASH)
  IN  IF cleaned = <<>> THEN [ok |-> FALSE, relative |-> <<>>]
      ELSE IF \E i \in 1..Len(parts) : parts[i] \in {DOT, DOTDOT}
           THEN [ok |-> FALSE, relative |-> <<>>]
      ELSE [ok |-> TRUE, relative |-> construct_note_path(cut)]

\* the relative path a validated tool call works on: validate_title at the
\* tool boundary, then construct_note_path in the core
validated_note_path(title) ==
  IF ~validate_title(title).ok THEN [ok |-> FALSE, relative |-> <<>>]
  ELSE [ok |-> TRUE, relative |-> construct_note_path(validate_title(title).title)]

\* monolith _normalize_note_identifier: validation and construction in one
_normalize_note_identifier(identifier) ==
  LET cleaned == Strip(identifier)
      cut == IF EndsWith(Lower(cleaned), MD) THEN Slice(cleaned, 0, Len(cleaned) - 3)
             ELSE cleaned
      raw == Split(cut, SLASH)
      parts == DropSegments([i \in 1..Len(raw) |-> Strip(raw[i])], {<<>>})
  IN  IF cleaned = <<>> \/ parts = <<>> THEN [ok |-> FALSE, relative |-> <<>>]
      ELSE IF \E i \in 1..Len(parts) : parts[i] \in {DOT, DOTDOT}
           THEN [ok |-> FALSE, relative |-> <<>>]
      ELSE [ok |-> TRUE,
            relative |-> PurePath(SubSeq(parts, 1, Len(parts) - 1))
                         \o <<parts[Len(parts)] \o MD>>]

\* monolith _resolve_note_path
_resolve_note_path(links, vault_path, title) ==
  LET n == _normalize_note_identifier(title)
      candidate == Resolve(links, vault_path \o n.relative)
      vault_root == Resolve(links, vault_path)
  IN  IF ~n.ok
      THEN [ok |-> FALSE, error |-> "invalid_identifier", path |-> <<>>, fs |-> FALSE]
      ELSE IF ~IsRelativeTo(candidate, vault_root)
      THEN [ok |-> FALSE, error |-> "escapes_vault", path |-> <<>>, fs |-> TRUE]
      ELSE [ok |-> TRUE, error |-> "", path |-> candidate, fs |-> TRUE]

(***************************************************************************)
(* The vault and the record a tool call leaves behind                      *)
(***************************************************************************)
\* VaultMetadata.path of the configured vault, already resolved at load time
VaultPath == << <<"v">> >>

\* no symbolic link at all
NoLinks == [p \in {} |-> <<>>]

\* the file the operating system reaches through path: links are followed
FileAt(path) == Resolve(symlinks, path)

\* the directories above path, from the topmost down to path.parent
Parents(path) == {SubSeq(path, 1, k) : k \in 1..(Len(path) - 1)}

\* the directories a set of files needs, and the vault directory itself
DirsOf(fs) == UNION {Parents(q) : q \in DOMAIN fs} \cup {VaultPath}

NoBounds == [start |-> 0, end |-> 0]

\* what the caller and the disk can observe of one call
Outcome(op, title, heading, content, status, res, read, index, bounds, wrote) ==
  [op |-> op, title |-> title, heading |-> heading, content |-> content,
   status |-> status, ok |-> res.ok, path |-> res.path, fs |-> res.fs, read |-> read,
   index |-> index, bounds |-> bounds, wrote |-> wrote,
   pre |-> files]

NoCall ==
  [op |-> "none", title |-> <<>>, heading |-> <<>>, content |-> <<>>,
   status |-> "", ok |-> FALSE, path |-> <<>>, fs |-> FALSE, read |-> <<>>,
   index |-> 0, bounds |-> NoBounds, wrote |-> FALSE,
   pre |-> <<>>]

\* the outcome of a section operation that raised (the path escapes the vault,
\* the note is missing, the heading is missing): nothing is written
SectionError(op, title, heading, content, res, status, read) ==
  /\ last' = Outcome(op, title, heading, content, status, res, read, 0, NoBounds, FALSE)
  /\ UNCHANGED <<files, symlinks, dirs, server>>

\* mutant of insert_after_heading: when the heading is missing the content is
\* appended to the note instead
insert_after_heading_upsert(title, heading, content) ==
  \E res \in {resolve_note_path(symlinks, VaultPath, title)} :
    IF ~res.ok
    THEN SectionError("insert_after_heading", title, heading, content, res, res.error, <<>>)
    ELSE IF FileAt(res.path) \notin DOMAIN files
    THEN SectionError("insert_after_heading", title, heading, content, res,
                      "note_not_found", <<>>)
    ELSE \E text \in {ReadText(files[FileAt(res.path)])} :
         \E loc \in {_locate_heading(text, heading)} :
           /\ files' = [files EXCEPT ![FileAt(res.path)] =
                          IF loc.found
                          THEN InsertAfterText(text, loc.headings[loc.index], content)
                          ELSE text \o content]
           /\ last' = Outcome("insert_after_heading", title, heading, content,
                              "inserted_after_heading", res, text, loc.index,
                              NoBounds, TRUE)
           /\ UNCHANGED <<symlinks, dirs, server>>

insert_after_heading(title, heading, content) ==
  \E res \in {resolve_note_path(symlinks, VaultPath, title)} :
    IF ~res.ok
    THEN SectionError("insert_after_heading", title, heading, content, res, res.error, <<>>)
    ELSE IF FileAt(res.path) \notin DOMAIN files
    THEN SectionError("insert_after_heading", title, heading, content, res,
                      "note_not_found", <<>>)
    ELSE \E text \in {ReadText(files[FileAt(res.path)])} :
         \E loc \in {_locate_heading(text, heading)} :
           IF ~loc.found
           THEN SectionError("insert_after_heading", title, heading, content, res,
                             "heading_not_found", text)
           ELSE /\ files' = [files EXCEPT ![FileAt(res.path)] =
                               InsertAfterText(text, loc.headings[loc.index], content)]
                /\ last' = Outcome("insert_after_heading", title, heading, content,
                                   "inserted_after_heading", res, text, loc.index,
                                   NoBounds, TRUE)
                /\ UNCHANGED <<symlinks, dirs, server>>

\* mutant of append_to_section: the note is written back even when there is
\* nothing to append
append_to_section_rewrite(title, heading, content) ==
  \E res \in {resolve_note_path(symlinks, VaultPath, title)} :
    IF ~res.ok
    THEN SectionError("append_to_section", title, heading, content, res, res.error, <<>>)
    ELSE IF FileAt(res.path) \notin DOMAIN files
    THEN SectionError("append_to_section", title, heading, content, res,
                      "note_not_found", <<>>)
    ELSE \E text \in {ReadText(files[FileAt(res.path)])} :
         \E loc \in {_locate_heading(text, heading)} :
           IF ~loc.found
           THEN SectionError("append_to_section", title, heading, content, res,
                             "heading_not_found", text)
           ELSE /\ files' = [files EXCEPT ![FileAt(res.path)] =
                               AppendToSectionText(text, loc.headings, loc.index, content)]
                /\ last' = Outcome("append_to_section", title, heading, content,
                                   "section_appended", res, text, loc.index,
                                   NoBounds, TRUE)
                /\ UNCHANGED <<symlinks, dirs, server>>

append_to_section(title, heading, content) ==
  \E res \in {resolve_note_path(symlinks, VaultPath, title)} :
    IF ~res.ok
    THEN SectionError("append_to_section", title, heading, content, res, res.error, <<>>)
    ELSE IF FileAt(res.path) \notin DOMAIN files
    THEN SectionError("append_to_section", title, heading, content, res,
                      "note_not_found", <<>>)
    ELSE \E text \in {ReadText(files[FileAt(res.path)])} :
         \E loc \in {_locate_heading(text, heading)} :
           IF ~loc.found
           THEN SectionError("append_to_section", title, heading, content, res,
                             "heading_not_found", text)
           ELSE \E writes \in {RStrip(content, CRNL) # <<>>} :
                /\ files' = IF writes
                            THEN [files EXCEPT ![FileAt(res.path)] =
                                    AppendToSectionText(text, loc.headings, loc.index,
                                                        content)]
                            ELSE files
                /\ last' = Outcome("append_to_section", title, heading, content,
                                   "section_appended", res, text, loc.index,
                                   NoBounds, writes)
                /\ UNCHANGED <<symlinks, dirs, server>>

replace_section(title, heading, content) ==
  \E res \in {resolve_note_path(symlinks, VaultPath, title)} :
    IF ~res.ok
    THEN SectionError("replace_section", title, heading, content, res, res.error, <<>>)
    ELSE IF FileAt(res.path) \notin DOMAIN files
    THEN SectionError("replace_section", title, heading, content, res,
                      "note_not_found", <<>>)
    ELSE \E text \in {ReadText(files[FileAt(res.path)])} :
         \E loc \in {_locate_heading(text, heading)} :
           IF ~loc.found
           THEN SectionError("replace_section", title, heading, content, res,
                             "heading_not_found", text)
           ELSE /\ files' = [files EXCEPT ![FileAt(res.path)] =
                               ReplaceSectionText(text, loc.headings, loc.index, content)]
                /\ last' = Outcome("replace_section", title, heading, content,
                                   "section_replaced", res, text, loc.index,
                                   _section_bounds(loc.headings, loc.index, Len(text)),
                                   TRUE)
                /\ UNCHANGED <<symlinks, dirs, server>>

delete_section(title, heading) ==
  \E res \in {resolve_note_path(symlinks, VaultPath, title)} :
    IF ~res.ok
    THEN SectionError("delete_section", title, heading, <<>>, res, res.error, <<>>)
    ELSE IF FileAt(res.path) \notin DOMAIN files
    THEN SectionError("delete_section", title, heading, <<>>, res, "note_not_found", <<>>)
    ELSE \E text \in {ReadText(files[FileAt(res.path)])} :
         \E loc \in {_locate_heading(text, heading)} :
           IF ~loc.found
           THEN SectionError("delete_section", title, heading, <<>>, res,
                             "heading_not_found", text)
           ELSE /\ files' = [files EXCEPT ![FileAt(res.path)] =
                               DeleteSectionText(text, loc.headings, loc.index)]
                /\ last' = Outcome("delete_section", title, heading, <<>>,
                                   "section_deleted", res, text, loc.index,
                                   _section_bounds(loc.headings, loc.index, Len(text)),
                                   TRUE)
                /\ UNCHANGED <<symlinks, dirs, server>>

(***************************************************************************)
(* Note tools: the Pydantic input model validates the title, then the core *)
(* operation resolves it                                                   *)
(***************************************************************************)
\* a call that ended without touching a file: status says why
NoteError(op, title, content, res, status) ==
  /\ last' = Outcome(op, title, <<>>, content, status, res, <<>>, 0, NoBounds, FALSE)
  /\ UNCHANGED <<files, symlinks, dirs, server>>

\* the result of a title the input model rejected: resolution is never reached
Rejected == [ok |-> FALSE, error |-> "invalid_identifier", path |-> <<>>, fs |-> FALSE]

retrieve_note(title) ==
  \E res \in {resolve_note_path(symlinks, VaultPath, title)} :
    IF ~res.ok THEN NoteError("retrieve_note", title, <<>>, res, res.error)
    ELSE IF FileAt(res.path) \notin DOMAIN files
    THEN NoteError("retrieve_note", title, <<>>, res, "note_not_found")
    ELSE /\ last' = Outcome("retrieve_note", title, <<>>, <<>>, "retrieved", res,
                            ReadText(files[FileAt(res.path)]), 0, NoBounds, FALSE)
         /\ UNCHANGED <<files, symlinks, dirs, server>>

\* mutant of create_note: an existing note is overwritten
create_note_overwrite(title, content) ==
  \E res \in {resolve_note_path(symlinks, VaultPath, title)} :
    IF ~res.ok THEN NoteError("create_note", title, content, res, res.error)
    ELSE IF \E a \in Parents(FileAt(res.path)) : a \in DOMAIN files
    THEN NoteError("create_note", title, content, res, "mkdir_failed")
    ELSE IF FileAt(res.path) \in dirs
    THEN NoteError("create_note", title, content, res, "note_exists")
    ELSE /\ files' = [q \in DOMAIN files \cup {FileAt(res.path)} |->
                        IF q = FileAt(res.path) THEN content ELSE files[q]]
         /\ dirs' = dirs \cup Parents(FileAt(res.path))
         /\ last' = Outcome("create_note", title, <<>>, content, "created", res,
                            <<>>, 0, NoBounds, TRUE)
         /\ UNCHANGED <<symlinks, server>>

\* create_note: target_path.parent.mkdir(parents=True, exist_ok=True) raises
\* when a parent is a regular file; target_path.exists() holds of a file and of
\* a directory alike
create_note(title, content) ==
  \E res \in {resolve_note_path(symlinks, VaultPath, title)} :
    IF ~res.ok THEN NoteError("create_note", title, content, res, res.error)
    ELSE IF \E a \in Parents(FileAt(res.path)) : a \in DOMAIN files
    THEN NoteError("create_note", title, content, res, "mkdir_failed")
    ELSE IF FileAt(res.path) \in DOMAIN files \/ FileAt(res.path) \in dirs
    THEN NoteError("create_note", title, content, res, "note_exists")
    ELSE /\ files' = [q \in DOMAIN files \cup {FileAt(res.path)} |->
                        IF q = FileAt(res.path) THEN content ELSE files[q]]
         /\ dirs' = dirs \cup Parents(FileAt(res.path))
         /\ last' = Outcome("create_note", title, <<>>, content, "created", res,
                            <<>>, 0, NoBounds, TRUE)
         /\ UNCHANGED <<symlinks, server>>

replace_note(title, content) ==
  \E res \in {resolve_note_path(symlinks, VaultPath, title)} :
    IF ~res.ok THEN NoteError("replace_note", title, content, res, res.error)
    ELSE IF FileAt(res.path) \notin DOMAIN files
    THEN NoteError("replace_note", title, content, res, "note_not_found")
    ELSE /\ files' = [files EXCEPT ![FileAt(res.path)] = content]
         /\ last' = Outcome("replace_note", title, <<>>, content, "replaced", res,
                            <<>>, 0, NoBounds, TRUE)
         /\ UNCHANGED <<symlinks, dirs, server>>

delete_note(title) ==
  \E res \in {resolve_note_path(symlinks, VaultPath, title)} :
    IF ~res.ok THEN NoteError("delete_note", title, <<>>, res, res.error)
    ELSE IF FileAt(res.path) \notin DOMAIN files
    THEN NoteError("delete_note", title, <<>>, res, "note_not_found")
    ELSE /\ files' = [q \in DOMAIN files \ {FileAt(res.path)} |-> files[q]]
         /\ last' = Outcome("delete_note", title, <<>>, <<>>, "deleted", res,
                            <<>>, 0, NoBounds, TRUE)
         /\ UNCHANGED <<symlinks, dirs, server>>

retrieve_obsidian_note(title) ==
  \E input \in {validate_title(title)} :
    IF ~input.ok THEN NoteError("retrieve_note", title, <<>>, Rejected, Rejected.error)
    ELSE retrieve_note(input.title)

create_obsidian_note(title, content) ==
  \E input \in {validate_title(title)} :
    IF ~input.ok THEN NoteError("create_note", title, content, Rejected, Rejected.error)
    ELSE create_note(input.title, content)

replace_obsidian_note(title, content) ==
  \E input \in {validate_title(title)} :
    IF ~input.ok THEN NoteError("replace_note", title, content, Rejected, Rejected.error)
    ELSE replace_note(input.title, content)

delete_obsidian_note(title) ==
  \E input \in {validate_title(title)} :
    IF ~input.ok THEN NoteError("delete_note", title, <<>>, Rejected, Rejected.error)
    ELSE delete_note(input.title)

\* a bare call of a resolver: what it returns is all there is to observe
Resolved(op, title, res) ==
  NoteError(op, title, <<>>, res, IF res.ok THEN "resolved" ELSE res.error)

(***************************************************************************)
(* Inputs of the section specification                                     *)
(***************************************************************************)
MaxLines == 3

\* the note of the end-to-end scenarios of the specification
ExampleText ==
  <<HASH, SP, "T", "a", "s", "k", "s", NL, "-", SP, "b", "u", "y", SP, "m",
  "i", "l", "k", NL, NL, HASH, HASH, SP, "S", "u", "b", NL, "t", "e", "x",
  "t", NL, NL, HASH, SP, "D", "o", "n", "e", NL>>

ExampleReplaced ==
  <<HASH, SP, "T", "a", "s", "k", "s", NL, "-", SP, "n", "e", "w", SP, "t",
  "a", "s", "k", NL, NL, HASH, SP, "D", "o", "n", "e", NL>>

ExampleInserted ==
  <<HASH, SP, "T", "a", "s", "k", "s", NL, "-", SP, "u", "r", "g", "e", "n",
  "t", SP, "i", "t", "e", "m", NL, "-", SP, "b", "u", "y", SP, "m", "i",
  "l", "k", NL, NL, HASH, HASH, SP, "S", "u", "b", NL, "t", "e", "x", "t",
  NL, NL, HASH, SP, "D", "o", "n", "e", NL>>

NewTask == <<"-", SP, "n", "e", "w", SP, "t", "a", "s", "k">>

UrgentItem == <<"-", SP, "u", "r", "g", "e", "n", "t", SP, "i", "t", "e",
              "m">>

TasksTitle == <<"T", "a", "s", "k", "s">>

\* whole lines a note is built from, and an unterminated last line
Lines == {<<HASH, SP, "A", NL>>, <<HASH, HASH, SP, "B", NL>>, <<"x", NL>>, <<NL>>}

LastLines == {<<>>, <<"x">>, <<HASH, SP, "A">>}

RECURSIVE LinesUpTo(_)
LinesUpTo(n) ==
  IF n = 0 THEN {<<>>}
  ELSE LinesUpTo(n - 1) \cup {l \o rest : l \in Lines, rest \in LinesUpTo(n - 1)}

\* a note stored with "\r\n" line terminators
CrLfText == <<HASH, SP, "A", CR, NL, "x", CR, NL, HASH, HASH, SP, "B", CR, NL>>

\* a note whose headings repeat a title in other letter cases and spacings
RepeatedText ==
  <<HASH, SP, "a", SP, SP, "b", NL, "x", NL, HASH, HASH, SP, "A", SP, "B", NL,
    "y", NL, HASH, SP, "A", "\t", "b", SP, NL>>

\* notes with a line of hashes alone, before a heading line and before text
BareHashText == <<HASH, NL, HASH, SP, "A", NL, "x", NL>>

BareHashThenText == <<HASH, NL, "x", NL, HASH, SP, "A", NL>>

\* a note with seven hashes, with no blank after the hash, and with six hashes
HashRunsText ==
  <<HASH, HASH, HASH, HASH, HASH, HASH, HASH, SP, "x", NL, HASH, "x", NL,
    HASH, HASH, HASH, HASH, HASH, HASH, SP, "A", SP, NL>>

\* a note with three blank lines that are not next to a section
BlankRunText == <<NL, NL, NL, "x", NL, HASH, SP, "A", NL, "x", NL>>

SectionTexts ==
  {body \o tail : body \in LinesUpTo(MaxLines), tail \in LastLines}
  \cup {ExampleText, CrLfText, RepeatedText, BareHashText, BareHashThenText,
        HashRunsText, BlankRunText}

HeadingQueries == {<<"a">>, <<SP, "B", SP>>, TasksTitle, <<"A", SP, SP, SP, "b">>}

Contents ==
  {<<>>, <<"y">>, <<NL, "y", NL, NL>>, <<"y", CR, NL>>, NewTask, UrgentItem}

\* what append_to_section is given: nothing, line terminators alone, a blank,
\* and contents that begin with no, one and two newlines
AppendContents ==
  {<<>>, <<CR, NL>>, <<SP>>, <<"y">>, <<NL, "y", NL, NL>>, <<NL, NL, "y">>}

NoteTitle == <<"n">>

NotePath == VaultPath \o <<NoteTitle \o MD>>

\* a vault without the note
NoFiles == [p \in {} |-> <<>>]

InitSection ==
  /\ \/ \E text \in SectionTexts : files = [p \in {NotePath} |-> text]
     \/ files = NoFiles
  /\ symlinks = NoLinks
  /\ ServerAtStart
  /\ dirs = DirsOf(files)
  /\ last = NoCall

\* no tool call has been made yet: a behaviour is one call on one note
Idle == last.op = "none"

\* one tool call on the note; the section tools hand the title to the core
\* operation as received
NextSection ==
  \/ Idle /\ \E heading \in HeadingQueries, content \in Contents :
               insert_after_heading(NoteTitle, heading, content)
  \/ Idle /\ \E heading \in HeadingQueries, content \in AppendContents :
               append_to_section(NoteTitle, heading, content)
  \/ Idle /\ \E heading \in HeadingQueries, content \in Contents :
               replace_section(NoteTitle, heading, content)
  \/ Idle /\ \E heading \in HeadingQueries : delete_section(NoteTitle, heading)

SpecSection == InitSection /\ [][NextSection]_vars

(***************************************************************************)
(* Inputs of the path specification: identifiers built from the segments   *)
(* that matter to the resolver, and a file system with a few links         *)
(***************************************************************************)
MaxSegments == 3

Segments == {<<>>, DOT, DOTDOT, <<"n">>, <<"l">>, <<"d">>}

RECURSIVE Join(_)
Join(parts) ==
  IF Len(parts) = 1 THEN parts[1] ELSE parts[1] \o <<SLASH>> \o Join(Tail(parts))

Identifiers ==
  {Join(parts) : parts \in UNION {[1..k -> Segments] : k \in 1..MaxSegments}}

\* a link inside the vault that leads out of it, one that stays in it, and a
\* vault directory that is itself a link
LinkOut == [p \in {<< <<"v">>, <<"l">> >>} |-> << <<"o">> >>]

LinkIn == [p \in {<< <<"v">>, <<"l">> >>} |-> << <<"v">>, <<"d">> >>]

LinkedVault == [p \in {<< <<"v">> >>} |-> << <<"w">> >>]

LinkConfigs == {NoLinks, LinkOut, LinkIn, LinkedVault}

NoteName == <<"n", ".", "m", "d">>

PathText == <<"#", " ", "A", NL, "x", NL>>

\* notes in the vault and in a folder of it, and files that are none of the
\* vault's business
DiskPaths ==
  {<< <<"v">>, NoteName >>, << <<"v">>, <<"d">>, NoteName >>, << <<"w">>, NoteName >>,
   << <<"o">>, NoteName >>, << NoteName >>}

InitPath ==
  /\ files = [p \in DiskPaths |-> PathText]
  /\ symlinks \in LinkConfigs
  /\ ServerAtStart
  /\ dirs = DirsOf(files)
  /\ last = NoCall

PathHeading == <<"a">>

PathContent == <<"y">>

\* one call with a title of the caller's choosing: the resolvers alone, the
\* section tools (the title goes to the core as received), the note tools
\* (the title goes through the input model)
NextPath ==
  \/ Idle /\ \E title \in Identifiers :
               Resolved("resolve_note_path", title,
                        resolve_note_path(symlinks, VaultPath, title))
  \/ Idle /\ \E title \in Identifiers :
               Resolved("_resolve_note_path", title,
                        _resolve_note_path(symlinks, VaultPath, title))
  \/ Idle /\ \E title \in Identifiers :
               insert_after_heading(title, PathHeading, PathContent)
  \/ Idle /\ \E title \in Identifiers :
               append_to_section(title, PathHeading, PathContent)
  \/ Idle /\ \E title \in Identifiers :
               replace_section(title, PathHeading, PathContent)
  \/ Idle /\ \E title \in Identifiers : delete_section(title, PathHeading)
  \/ Idle /\ \E title \in Identifiers : retrieve_obsidian_note(title)
  \/ Idle /\ \E title \in Identifiers : create_obsidian_note(title, PathContent)
  \/ Idle /\ \E title \in Identifiers : delete_obsidian_note(title)

SpecPath == InitPath /\ [][NextPath]_vars

(***************************************************************************)
(* Inputs of the note specification: any sequence of note tool calls on a  *)
(* few titles, one of them in a folder whose name is that of a note file   *)
(***************************************************************************)
NoteTitles ==
  {<<"n">>, <<"d", SLASH, "n">>, <<"n", ".", "m", "d", SLASH, "d">>}

NoteContents == {<<>>, <<"x">>, <<"y", NL>>}

InitNotes ==
  /\ files \in {NoFiles, [p \in {NotePath} |-> <<"x">>]}
  /\ symlinks = NoLinks
  /\ ServerAtStart
  /\ dirs = DirsOf(files)
  /\ last = NoCall

NextNotes ==
  \/ \E title \in NoteTitles, content \in NoteContents :
       create_obsidian_note(title, content)
  \/ \E title \in NoteTitles : retrieve_obsidian_note(title)
  \/ \E title \in NoteTitles, content \in NoteContents :
       replace_obsidian_note(title, content)
  \/ \E title \in NoteTitles : delete_obsidian_note(title)

SpecNotes == InitNotes /\ [][NextNotes]_vars

(***************************************************************************)
(* Properties of the note operations                                       *)
(***************************************************************************)
\* the files before the call, with content stored at path
WithFile(fs, path, content) ==
  [q \in DOMAIN fs \cup {path} |-> IF q = path THEN content ELSE fs[q]]

CreateCalled == last.op = "create_note" /\ last.ok

\* C12: whatever note operations came before, create_note on a title whose
\* file exists ends with the already-exists error and leaves the files as
\* they were; create_note on a title whose file does not exist ends with
\* "created", the file holds the content, and every parent directory exists
C12_CreateNote ==
  CreateCalled =>
    IF FileAt(last.path) \in DOMAIN last.pre
    THEN last.status = "note_exists" /\ files = last.pre
    ELSE /\ last.status = "created"
         /\ files = WithFile(last.pre, FileAt(last.path), last.content)
         /\ Parents(FileAt(last.path)) \subseteq dirs

\* what does hold: the same with "something exists at the path, a file or a
\* directory" for "the file exists", for a path none of whose parents is a
\* regular file
CreateOnFreePath ==
  (CreateCalled /\ \A a \in Parents(FileAt(last.path)) : a \notin DOMAIN last.pre) =>
    IF FileAt(last.path) \in DOMAIN last.pre \/ FileAt(last.path) \in dirs
    THEN last.status = "note_exists" /\ files = last.pre
    ELSE /\ last.status = "created"
         /\ files = WithFile(last.pre, FileAt(last.path), last.content)
         /\ Parents(FileAt(last.path)) \subseteq dirs

\* create_note refused a title that names no file: a folder has the name
CreateRefusedForFolder ==
  /\ CreateCalled /\ last.status = "note_exists"
  /\ FileAt(last.path) \notin DOMAIN last.pre

\* create_note failed in mkdir: a parent of the path is a note file
CreateFailedInMkdir ==
  /\ CreateCalled /\ last.status = "mkdir_failed"
  /\ files = last.pre

(***************************************************************************)
(* Properties of the path resolver                                         *)
(***************************************************************************)
VaultRoot == Resolve(symlinks, VaultPath)

Called == last.op # "none"

\* the files outside the vault root are the ones the call found there, with
\* the bytes it found
OutsideUntouched ==
  \A p \in DOMAIN files \cup DOMAIN last.pre :
    ~IsRelativeTo(p, VaultRoot) =>
      p \in DOMAIN files /\ p \in DOMAIN last.pre /\ files[p] = last.pre[p]

\* C1: whenever a resolver returns a path, that path, links and ".." resolved,
\* lies inside the resolved vault root; the file a call read or wrote is the
\* one at that path, and no file outside the vault root is created, changed
\* or removed by any call
C1_ResolvedInsideVault ==
  Called =>
    /\ last.ok => IsRelativeTo(FileAt(last.path), VaultRoot)
    /\ (last.wrote \/ last.read # <<>>) => last.ok
    /\ OutsideUntouched

\* a title that walks through the link leading out of the vault is refused,
\* and one that walks through "d/.." and stays in the vault is resolved
C1_Witness ==
  /\ last.op = "replace_section"
  /\ symlinks = LinkIn
  /\ last.title = <<"l", SLASH, "n">>
  /\ last.ok /\ last.wrote
  /\ last.path = << <<"v">>, <<"d">>, NoteName >>

\* the identifiers the resolver is to refuse: a "." or ".." segment, or a
\* leading "/"
HasDotSegment(identifier) ==
  \E i \in 1..Len(Split(identifier, SLASH)) :
    Split(identifier, SLASH)[i] \in {DOT, DOTDOT}

Forbidden(identifier) ==
  HasDotSegment(identifier) \/ StartsWith(identifier, <<SLASH>>)

\* C2: a call whose identifier has a "." or ".." segment or a leading "/"
\* fails with the invalid-identifier error, and before any file system access
C2_ForbiddenIdentifierFails ==
  (Called /\ Forbidden(last.title)) =>
    (last.status = "invalid_identifier" /\ ~last.fs)


\* a tool was called: not one of the two resolvers alone
ToolCalled == Called /\ last.op \notin {"resolve_note_path", "_resolve_note_path"}

NoteTools == {"retrieve_note", "create_note", "delete_note"}

\* the title is one the input model lets through, in the form it returns
Validated(title) == validate_title(title).ok /\ validate_title(title).title = title

\* C18: on every tool call that takes a note title, the title that reaches
\* resolve_note_path has passed validation (not empty, no "." or ".."
\* segment, no leading "/", the suffix stripped)
C18_TitleValidatedFirst == (ToolCalled /\ last.fs) => Validated(last.title)

\* what does hold: the note tools resolve validated titles only
NoteToolsValidate ==
  (ToolCalled /\ last.op \in NoteTools /\ last.fs) => Validated(last.title)

\* a section tool resolved, and edited, a note under a title the input model
\* refuses
SectionToolUnvalidated ==
  /\ ToolCalled /\ last.op \notin NoteTools
  /\ ~validate_title(last.title).ok
  /\ last.fs /\ last.ok /\ last.wrote

\* a note tool refused a title and a note tool resolved one
NoteToolRefused ==
  ToolCalled /\ last.op \in NoteTools /\ ~last.fs /\ ~validate_title(last.title).ok

(***************************************************************************)
(* Properties of the section operations.  The texts compared are the text  *)
(* the call read (last.read) and the text it left on disk.                 *)
(***************************************************************************)
Located(op) == last.op = op /\ last.index # 0

Written == files[last.path]

ReadHeadings == _parse_headings(last.read)

\* the headings after i that end i's section, and where the section then ends
Closers(headings, i) ==
  {j \in (i + 1)..Len(headings) : headings[j].level <= headings[i].level}

SectionEnd(headings, i, n) ==
  IF Closers(headings, i) = {} THEN n ELSE headings[Min(Closers(headings, i))].start

\* C3: for every heading i of a parsed text, _section_bounds starts at the
\* heading's end offset and ends at the start of the first later heading whose
\* level is <= the level of i, or at the text length; every deeper heading in
\* between lies inside the bounds.
C3_SectionBounds ==
  (last.op \in {"replace_section", "delete_section"} /\ last.index # 0) =>
    LET hs == ReadHeadings
        n == Len(last.read)
    IN  /\ last.bounds = [start |-> hs[last.index].end,
                          end |-> SectionEnd(hs, last.index, n)]
        /\ \A i \in 1..Len(hs) :
             LET b == _section_bounds(hs, i, n)
             IN  /\ b.start = hs[i].end
                 /\ b.end = SectionEnd(hs, i, n)
                 /\ \A j \in (i + 1)..Len(hs) :
                      (\A k \in (i + 1)..j : hs[k].level > hs[i].level)
                        => (b.start <= hs[j].start /\ hs[j].end <= b.end)

\* a section with a nested subsection that is closed by a later sibling
C3_Witness ==
  /\ Located("replace_section")
  /\ \E j \in (last.index + 1)..Len(ReadHeadings) :
       /\ ReadHeadings[j].level > ReadHeadings[last.index].level
       /\ \E k \in (j + 1)..Len(ReadHeadings) : k \in Closers(ReadHeadings, last.index)
  /\ last.bounds.end < Len(last.read)

\* C4: replace_section keeps the text up to the heading's end and the text from
\* the next heading of level <= the target's level onward, and puts the new
\* content (trailing line terminators dropped, newline padding around it) in
\* between; the scenario of the specification yields exactly ExampleReplaced.
C4_ReplaceSection ==
  Located("replace_section") =>
    LET hs == ReadHeadings
        i == last.index
        kept_before == Slice(last.read, 0, hs[i].end)
        kept_after == Slice(last.read, SectionEnd(hs, i, Len(last.read)), Len(last.read))
        core == RStrip(last.content, CRNL)
    IN  /\ \E lead \in {<<>>, <<NL>>}, trail \in {<<>>, <<NL>>, <<NL, NL>>} :
             Written = kept_before \o lead \o core \o trail \o kept_after
        /\ (last.read = ExampleText /\ last.heading = TasksTitle /\ last.content = NewTask)
             => Written = ExampleReplaced

C4_Witness ==
  /\ Located("replace_section")
  /\ last.read = ExampleText /\ last.heading = TasksTitle /\ last.content = NewTask
  /\ Written = ExampleReplaced

\* where the kept text after the replaced section starts in the written text
SeamAfterReplace ==
  Len(Written) - (Len(last.read) - SectionEnd(ReadHeadings, last.index, Len(last.read)))

FollowedByHeading == Closers(ReadHeadings, last.index) # {}

\* exactly one empty line before the next heading, or no empty line at the end
OneBlankLineOrNone ==
  IF FollowedByHeading
  THEN TrailCount(Slice(Written, 0, SeamAfterReplace), {NL}) = 2
  ELSE ~EndsWith(Written, <<NL, NL>>)

\* C5 as stated: after every successful replace_section, whatever the content,
\* exactly one blank line separates the replaced section from a following
\* heading, and a replaced last section leaves no trailing blank line.
C5_AnyContent == Located("replace_section") => OneBlankLineOrNone

\* C5 amended: the same, for content that is not empty once its trailing line
\* terminators are dropped.
C5_NonEmptyContent ==
  (Located("replace_section") /\ RStrip(last.content, CRNL) # <<>>) => OneBlankLineOrNone

\* a replaced section that had no blank line before the next heading
C5_Witness ==
  /\ Located("replace_section")
  /\ RStrip(last.content, CRNL) # <<>>
  /\ FollowedByHeading
  /\ TrailCount(Slice(last.read, 0, last.bounds.end), {NL}) = 1
  /\ TrailCount(Slice(Written, 0, SeamAfterReplace), {NL}) = 2

\* C6: insert_after_heading with non-empty content splices the content in at
\* the heading's end offset: the text read is kept in order on both sides, at
\* most one "\n" is added before and after the content and only when the
\* neighbouring text does not supply it, the content begins a line (a "\n"
\* ends the text before it, or the content opens with its own "\n") and the
\* text that followed the heading begins a line; the scenario of the
\* specification yields exactly ExampleInserted.
C6_InsertAfterHeading ==
  (Located("insert_after_heading") /\ last.content # <<>>) =>
    LET end == ReadHeadings[last.index].end
        kept_before == Slice(last.read, 0, end)
        kept_after == Slice(last.read, end, Len(last.read))
    IN  /\ \E lead \in {<<>>, <<NL>>}, trail \in {<<>>, <<NL>>} :
             /\ Written = kept_before \o lead \o last.content \o trail \o kept_after
             /\ lead # <<>> => (~EndsWith(kept_before, <<NL>>)
                                /\ ~StartsWith(last.content, <<NL>>))
             /\ trail # <<>> => (~EndsWith(last.content, <<NL>>)
                                 /\ kept_after # <<>> /\ ~StartsWith(kept_after, <<NL>>))
             /\ EndsWith(kept_before \o lead, <<NL>>) \/ StartsWith(last.content, <<NL>>)
             /\ kept_after # <<>>
                  => EndsWith(kept_before \o lead \o last.content \o trail, <<NL>>)
        /\ (last.read = ExampleText /\ last.heading = TasksTitle
            /\ last.content = UrgentItem) => Written = ExampleInserted

C6_Witness ==
  /\ Located("insert_after_heading")
  /\ last.read = ExampleText /\ last.heading = TasksTitle /\ last.content = UrgentItem
  /\ Written = ExampleInserted

HasRun(s, c, n) ==
  \E o \in 0..(Len(s) - n) : \A k \in 1..n : s[o + k] = c

\* C7: after delete_section the text holds no run of more than two consecutive
\* line terminators, at the place of the removed section or elsewhere.
C7_DeleteSection ==
  Located("delete_section") =>
    /\ ~HasRun(Written, NL, 3)
    /\ \A k \in 1..Len(Written) : Written[k] # CR

\* the section removed was preceded by two or more blank lines
C7_Witness ==
  /\ Located("delete_section")
  /\ TrailCount(Slice(last.read, 0, ReadHeadings[last.index].start), {NL}) >= 3
  /\ ~HasRun(Written, NL, 3)

SectionOps ==
  {"insert_after_heading", "append_to_section", "replace_section", "delete_section"}

\* the headings of text whose normalized key is that of the query
MatchesIn(hs, key) == {i \in 1..Len(hs) : hs[i].normalized = key}

HeadingMatches(text, heading) ==
  MatchesIn(_parse_headings(text), _normalize_heading_key(heading))

\* the note the call found at its path, as read_text decodes it
FoundText == ReadText(last.pre[FileAt(last.path)])

\* C11: a section operation on a note that does not exist ends with
\* NoteNotFound, one on a note without a heading of the requested title ends
\* with HeadingNotFound, and a call that ended with either wrote nothing: no
\* file was created and the files are what they were before the call
C11_SectionFailures ==
  (last.op \in SectionOps /\ last.ok) =>
    /\ FileAt(last.path) \notin DOMAIN last.pre
         => (last.status = "note_not_found" /\ files = last.pre)
    /\ (FileAt(last.path) \in DOMAIN last.pre
        /\ HeadingMatches(FoundText, last.heading) = {})
         => (last.status = "heading_not_found" /\ files = last.pre)
    /\ last.status \in {"note_not_found", "heading_not_found"}
         => (~last.wrote /\ files = last.pre)

\* a call with content to write, on a note that has headings but not the one
\* asked for
C11_Witness ==
  /\ last.op \in SectionOps /\ last.status = "heading_not_found"
  /\ last.content # <<>>
  /\ _parse_headings(last.read) # <<>>
  /\ files = last.pre

\* a call on a vault without the note
C11_MissingNote ==
  /\ last.op \in SectionOps /\ last.status = "note_not_found"
  /\ files = NoFiles

\* the words of s: its maximal runs of characters that are no whitespace
WordLen(s) ==
  IF \A i \in 1..Len(s) : ~IsWs(s[i]) THEN Len(s)
  ELSE Min({i \in 1..Len(s) : IsWs(s[i])}) - 1

RECURSIVE WordsOf(_)
WordsFrom(s) ==
  IF s = <<>> THEN <<>>
  ELSE <<Slice(s, 0, WordLen(s))>> \o WordsOf(Slice(s, WordLen(s), Len(s)))

WordsOf(s) == WordsFrom(LStrip(s, WsChars))

\* two titles have one key: the same words, letter case aside
SameKey(a, b) == WordsOf(Lower(a)) = WordsOf(Lower(b))

\* the headings of the text read whose title has the key of the query
KeyMatchesIn(hs, heading) == {i \in 1..Len(hs) : SameKey(hs[i].title, heading)}

KeyMatches == KeyMatchesIn(ReadHeadings, last.heading)

\* the call found its note and went on to locate the heading
Looked == last.op \in SectionOps /\ last.ok /\ FileAt(last.path) \in DOMAIN last.pre

\* C13: the heading an operation works on is, among the headings whose title
\* equals the query up to letter case and whitespace (runs collapsed, ends
\* trimmed), the one with the smallest start offset; when no heading has the
\* query's key the operation ends with HeadingNotFound
C13_LocateHeading ==
  Looked =>
    LET hs == ReadHeadings
        matches == KeyMatchesIn(hs, last.heading)
    IN  IF matches = {}
        THEN last.status = "heading_not_found" /\ last.index = 0
        ELSE /\ last.status # "heading_not_found"
             /\ last.index \in matches
             /\ \A j \in matches : hs[last.index].start <= hs[j].start

\* three headings share the key, none spelled as the query is
C13_Witness ==
  /\ Looked /\ last.index # 0
  /\ Cardinality(KeyMatches) >= 3
  /\ \A j \in KeyMatches : ReadHeadings[j].title # last.heading
  /\ last.index = Min(KeyMatches)

\* the offsets at which a line starts, the offset at which the line that
\* starts at o ends (its "\n", or the end of the text), and the line itself
LineStarts(text) == {o \in 0..(Len(text) - 1) : o = 0 \/ text[o] = NL}

EndOfLineAt(text, o) == Min({k \in o..Len(text) : k = Len(text) \/ text[k + 1] = NL})

LineAt(text, o) == Slice(text, o, EndOfLineAt(text, o))

\* the offset just after the terminator of the line that starts at o
AfterLine(text, o) ==
  IF EndOfLineAt(text, o) = Len(text) THEN Len(text) ELSE EndOfLineAt(text, o) + 1

\* the line is 1 to 6 hashes, at least one blank, and a title
HashCount(line) == LeadCount(line, {HASH})

IsHeadingLine(line) ==
  /\ HashCount(line) \in 1..6
  /\ Len(line) > HashCount(line)
  /\ IsWs(line[HashCount(line) + 1])
  /\ Strip(Slice(line, HashCount(line), Len(line))) # <<>>

TitleOfLine(line) == Strip(Slice(line, HashCount(line), Len(line)))

HeadingLineStarts(text) == {o \in LineStarts(text) : IsHeadingLine(LineAt(text, o))}

\* C19: the end offset of every heading is the offset just after the
\* terminator of the heading line itself, or the end of the text when the line
\* has none (stated for the records that start on a heading line)
C19_EndAfterOwnLine ==
  (Called /\ last.read # <<>>) =>
    \A i \in 1..Len(ReadHeadings) :
      ReadHeadings[i].start \in HeadingLineStarts(last.read)
        => ReadHeadings[i].end = AfterLine(last.read, ReadHeadings[i].start)

\* the line after the one that starts at o is missing or holds more than blanks
NextLineNotBlank(text, o) ==
  \/ AfterLine(text, o) = Len(text)
  \/ Strip(LineAt(text, AfterLine(text, o))) # <<>>

\* what does hold: the end offset is the one claimed when no blank line
\* follows the heading line
EndAfterOwnLineUnlessBlank ==
  (Called /\ last.read # <<>>) =>
    \A i \in 1..Len(ReadHeadings) :
      (/\ ReadHeadings[i].start \in HeadingLineStarts(last.read)
       /\ NextLineNotBlank(last.read, ReadHeadings[i].start))
        => ReadHeadings[i].end = AfterLine(last.read, ReadHeadings[i].start)

\* insert_after_heading put its content after the blank line that follows the
\* heading line
InsertedAfterBlankLine ==
  /\ Located("insert_after_heading") /\ last.wrote
  /\ ReadHeadings[last.index].start \in HeadingLineStarts(last.read)
  /\ ReadHeadings[last.index].end > AfterLine(last.read, ReadHeadings[last.index].start)
  /\ last.content = <<"y">>

\* C20: the headings of a text are its heading lines and no others, in
\* document order: a line of 1 to 6 hashes at its start, at least one blank
\* and a title that is not empty; the level is the number of hashes and the
\* title is that of the same line without the blanks around it
C20_HeadingLines ==
  (Called /\ last.read # <<>>) =>
    /\ {ReadHeadings[i].start : i \in 1..Len(ReadHeadings)} = HeadingLineStarts(last.read)
    /\ \A i \in 1..Len(ReadHeadings) :
         /\ ReadHeadings[i].start \in HeadingLineStarts(last.read)
         /\ ReadHeadings[i].level = HashCount(LineAt(last.read, ReadHeadings[i].start))
         /\ ReadHeadings[i].title = TitleOfLine(LineAt(last.read, ReadHeadings[i].start))
    /\ \A i \in 1..(Len(ReadHeadings) - 1) : ReadHeadings[i].start < ReadHeadings[i + 1].start

\* a line the text has that holds hashes alone
HasBareHashLine(text) ==
  \E o \in LineStarts(text) :
    LineAt(text, o) # <<>> /\ HashCount(LineAt(text, o)) = Len(LineAt(text, o))

\* what does hold: C20 for the texts without a line of hashes alone
HeadingLinesUnlessBareHash ==
  (Called /\ last.read # <<>> /\ ~HasBareHashLine(last.read)) =>
    /\ {ReadHeadings[i].start : i \in 1..Len(ReadHeadings)} = HeadingLineStarts(last.read)
    /\ \A i \in 1..Len(ReadHeadings) :
         /\ ReadHeadings[i].start \in HeadingLineStarts(last.read)
         /\ ReadHeadings[i].level = HashCount(LineAt(last.read, ReadHeadings[i].start))
         /\ ReadHeadings[i].title = TitleOfLine(LineAt(last.read, ReadHeadings[i].start))
    /\ \A i \in 1..(Len(ReadHeadings) - 1) : ReadHeadings[i].start < ReadHeadings[i + 1].start

\* a heading line went unseen: the heading "A" of the note is not found
\* because the line of hashes before it took it for its title
HeadingLineMissed ==
  /\ last.read = BareHashText
  /\ last.heading = <<"a">>
  /\ last.status = "heading_not_found"
  /\ HeadingLineStarts(last.read) # {}

\* lines of seven hashes and of a hash without a blank are no headings, a
\* line of six hashes is one of level 6
SixHashesAreAHeading ==
  /\ last.read = HashRunsText
  /\ Len(ReadHeadings) = 1 /\ ReadHeadings[1].level = 6
  /\ ReadHeadings[1].title = <<"A">>

\* append_to_section located its heading and had something to append
Appended == Located("append_to_section") /\ last.wrote

\* where the appended block goes: the start of the next heading of any level,
\* or the end of the text
SplicePointOf(hs, i, n) == IF i + 1 <= Len(hs) THEN hs[i + 1].start ELSE n

\* the block found after the call between the two parts of the old text
BlockAt(read, written, pos) == Slice(written, pos, Len(written) - (Len(read) - pos))

\* the content supplied, without the trailing line terminators
Supplied == RStrip(last.content, CRNL)

SuppliedLead == LeadCount(Supplied, {NL})

\* the block is the supplied content between newlines of its own
HoldsContent(block, content) ==
  /\ LStrip(RStrip(block, {NL}), {NL}) = LStrip(content, {NL})
  /\ Len(block) = LeadCount(block, {NL}) + Len(LStrip(content, {NL}))
                    + TrailCount(block, {NL})

EndsInOneNewline(body) == EndsWith(body, <<NL>>) /\ ~EndsWith(body, <<NL, NL>>)

\* the block is followed by one blank line before a heading, and ends the
\* document with one newline
BlockClosed(block, pos, n) == TrailCount(block, {NL}) = IF pos < n THEN 2 ELSE 1

\* C21 as stated: whatever newlines the content begins with, one newline
\* separates the heading line from the content after an empty body, the block
\* starts with one newline after a body that ends in one newline, and with
\* none after a body that ends in a blank line; the block is followed by one
\* blank line before a heading, by one newline at the end of the document
C21_AppendAnyContent ==
  Appended =>
    LET hs == ReadHeadings
        pos == SplicePointOf(hs, last.index, Len(last.read))
        body == Slice(last.read, hs[last.index].end, pos)
        block == BlockAt(last.read, Written, pos)
        terminated == EndsWith(Slice(last.read, 0, pos), <<NL>>)
    IN  /\ HoldsContent(block, Supplied)
        /\ body = <<>> => (IF terminated THEN 1 ELSE 0) + LeadCount(block, {NL}) = 1
        /\ EndsInOneNewline(body) => LeadCount(block, {NL}) = 1
        /\ EndsWith(body, <<NL, NL>>) => LeadCount(block, {NL}) = 0
        /\ BlockClosed(block, pos, Len(last.read))

\* C21 amended: after an empty body the content supplied follows the heading
\* line's terminator with the newlines it begins with, and follows one newline
\* without them when the line has no terminator; after a body that ends in
\* one newline the block starts with the newlines supplied, with one when none
\* was supplied; after a blank line it starts with none; the block is closed
\* as stated
C21_AppendSupplied ==
  Appended =>
    LET hs == ReadHeadings
        pos == SplicePointOf(hs, last.index, Len(last.read))
        body == Slice(last.read, hs[last.index].end, pos)
        block == BlockAt(last.read, Written, pos)
        terminated == EndsWith(Slice(last.read, 0, pos), <<NL>>)
    IN  /\ HoldsContent(block, Supplied)
        /\ body = <<>> =>
             LeadCount(block, {NL}) = IF terminated THEN SuppliedLead ELSE 1
        /\ EndsInOneNewline(body) =>
             LeadCount(block, {NL}) = IF SuppliedLead = 0 THEN 1 ELSE SuppliedLead
        /\ EndsWith(body, <<NL, NL>>) => LeadCount(block, {NL}) = 0
        /\ BlockClosed(block, pos, Len(last.read))

\* two leading newlines were kept after a body that ends in one newline, and
\* a heading follows the block
C21_Witness ==
  /\ Appended
  /\ SuppliedLead = 2
  /\ LET hs == ReadHeadings
         pos == SplicePointOf(hs, last.index, Len(last.read))
     IN  /\ EndsInOneNewline(Slice(last.read, hs[last.index].end, pos))
         /\ LeadCount(BlockAt(last.read, Written, pos), {NL}) = 2
         /\ pos < Len(last.read)

\* the leading newlines were stripped after a blank line
AppendedAfterBlankLine ==
  /\ Appended /\ SuppliedLead > 0
  /\ LET hs == ReadHeadings
         pos == SplicePointOf(hs, last.index, Len(last.read))
     IN  EndsWith(Slice(last.read, hs[last.index].end, pos), <<NL, NL>>)

\* an unterminated heading line at the end of the document got its newline
AppendedAfterBareHeading ==
  /\ Appended /\ SuppliedLead > 0
  /\ LET hs == ReadHeadings
         pos == SplicePointOf(hs, last.index, Len(last.read))
     IN  /\ hs[last.index].end = pos
         /\ ~EndsWith(Slice(last.read, 0, pos), <<NL>>)

\* the end of the direct body of heading i: the smallest start of a heading
\* that comes after it, or the end of the text
DirectBodyEnd(hs, i, n) ==
  IF \A k \in 1..Len(hs) : hs[k].start <= hs[i].start THEN n
  ELSE Min({hs[k].start : k \in {j \in 1..Len(hs) : hs[j].start > hs[i].start}})

\* C22: append_to_section puts the content at the end of the heading's direct
\* body, just before the next heading of any level or at the end of the
\* document; the text before that point and the text from that point on are
\* in the written text as they were, the first at its start, the second at
\* its end, and the content supplied lies between them
C22_AppendSplice ==
  Appended =>
    LET n == Len(last.read)
        pos == DirectBodyEnd(ReadHeadings, last.index, n)
        written == Written
    IN  /\ Len(written) > n
        /\ Slice(written, 0, pos) = Slice(last.read, 0, pos)
        /\ Slice(written, Len(written) - (n - pos), Len(written)) = Slice(last.read, pos, n)
        /\ LStrip(RStrip(BlockAt(last.read, written, pos), {NL}), {NL})
             = LStrip(Supplied, {NL})

\* the content went before a nested subsection, with text on both sides
C22_Witness ==
  /\ Appended
  /\ LET hs == ReadHeadings
         pos == DirectBodyEnd(hs, last.index, Len(last.read))
     IN  /\ last.index + 1 <= Len(hs)
         /\ hs[last.index + 1].level > hs[last.index].level
         /\ hs[last.index].end < pos
         /\ pos = hs[last.index + 1].start
         /\ Slice(Written, 0, pos) = Slice(last.read, 0, pos)

\* the call returned as a no-op: the normal status, the heading resolved, and
\* the note as it was, not written
AppendedNothing ==
  /\ last.status = "section_appended"
  /\ last.index # 0
  /\ ~last.wrote
  /\ files = last.pre

BlankAppended ==
  Located("append_to_section") /\ last.content = <<SP>> /\ last.wrote /\ files # last.pre

\* the text read before the removed heading and from the section end on
KeptBefore == Slice(last.read, 0, ReadHeadings[last.index].start)

KeptAfter == Slice(last.read, last.bounds.end, Len(last.read))

RECURSIVE Pieces(_)
Pieces(s) ==
  IF s = <<>> THEN <<>>
  ELSE IF s[1] = NL
       THEN <<Slice(s, 0, LeadCount(s, {NL}))>>
              \o Pieces(Slice(s, LeadCount(s, {NL}), Len(s)))
       ELSE << <<s[1]>> >> \o Pieces(Tail(s))

\* written is kept with each run of three or more line terminators left as
\* two and nothing else changed
OnlyLongRunsCut(kept, written) ==
  /\ Len(Pieces(written)) = Len(Pieces(kept))
  /\ \A k \in 1..Len(Pieces(kept)) :
       Pieces(written)[k] =
         IF Len(Pieces(kept)[k]) >= 3 THEN <<NL, NL>> ELSE Pieces(kept)[k]

MAX_FRONTMATTER_BYTES == 10240

YStr(s) == <<"str", s>>

YInt(n) == <<"int", n>>

YBool(b) == <<"bool", b>>

YNull == <<"null">>

YNaN(origin) == <<"nan", origin>>

YDate(iso) == <<"date", iso>>

YSet == <<"set">>

YList(items) == <<"list", items>>

YMap(f) == <<"map", f>>

EmptyMap == [k \in {} |-> YNull]

\* every key the model uses, in the order sorted() and yaml.dump give them
KeyOrder ==
  <<" ", "bad", "big", "created", "done", "due", "filler", "owner", "project",
    "status", "tags", "x">>

\* str.strip() of a key is empty
BlankKey(k) == k \in {"", " "}

\* the object yaml.safe_load builds for a scalar: every NaN is the loader's own
RECURSIVE Loaded(_)
Loaded(value) ==
  CASE value[1] = "nan" -> YNaN("file")
    [] value[1] = "list" -> YList([i \in 1..Len(value[2]) |-> Loaded(value[2][i])])
    [] value[1] = "map" -> YMap([k \in DOMAIN value[2] |-> Loaded(value[2][k])])
    [] OTHER -> value

\* the mapping a block's entries denote: of two entries with one key the later
\* one counts
RECURSIVE FromEntries(_)
FromEntries(entries) ==
  IF entries = <<>> THEN EmptyMap
  ELSE [k \in DOMAIN FromEntries(Tail(entries)) \cup {Head(entries)[1]} |->
          IF k \in DOMAIN FromEntries(Tail(entries))
          THEN FromEntries(Tail(entries))[k]
          ELSE Loaded(Head(entries)[2])]

\* mutant of _parse_frontmatter: the content is what follows the block, as it
\* stands
parse_frontmatter_unstripped(note) ==
  IF note.fm = "bad" THEN [ok |-> FALSE, metadata |-> EmptyMap, content |-> <<>>]
  ELSE [ok |-> TRUE,
        metadata |-> IF note.fm = "yaml" THEN FromEntries(note.entries) ELSE EmptyMap,
        content |-> IF note.fm = "yaml" THEN ReadText(note.body)
                    ELSE Strip(ReadText(note.body))]

\* _parse_frontmatter: frontmatter.loads strips the text, splits the block off
\* and strips the content; a block that is no YAML raises
_parse_frontmatter(note) ==
  IF note.fm = "bad" THEN [ok |-> FALSE, metadata |-> EmptyMap, content |-> <<>>]
  ELSE [ok |-> TRUE,
        metadata |-> IF note.fm = "yaml" THEN FromEntries(note.entries) ELSE EmptyMap,
        content |-> Strip(ReadText(note.body))]

\* the keys of metadata as yaml.dump orders them
RECURSIVE SortedKeys(_, _)
SortedKeys(metadata, i) ==
  IF i > Len(KeyOrder) THEN <<>>
  ELSE (IF KeyOrder[i] \in DOMAIN metadata THEN <<KeyOrder[i]>> ELSE <<>>)
       \o SortedKeys(metadata, i + 1)

\* what yaml.dump writes for a value: a NaN is ".nan" whichever object it was
RECURSIVE Dumped(_)
Dumped(value) ==
  CASE value[1] = "nan" -> YNaN("file")
    [] value[1] = "list" -> YList([i \in 1..Len(value[2]) |-> Dumped(value[2][i])])
    [] value[1] = "map" -> YMap([k \in DOMAIN value[2] |-> Dumped(value[2][k])])
    [] OTHER -> value

EntriesOf(metadata, keys) ==
  [i \in 1..Len(keys) |-> <<keys[i], Dumped(metadata[keys[i]])>>]

\* _serialize_frontmatter: no block for empty metadata; else frontmatter.dumps,
\* whose template is "---\n{metadata}\n---\n\n{content}\n", stripped
_serialize_frontmatter(metadata, content) ==
  IF DOMAIN metadata = {}
  THEN [fm |-> "none", layout |-> "hand", entries |-> <<>>, body |-> content]
  ELSE [fm |-> "yaml", layout |-> "dumped",
        entries |-> EntriesOf(metadata, SortedKeys(metadata, 1)),
        body |-> IF content = <<>> THEN <<>> ELSE <<NL, NL>> \o content]

\* _sanitize: the value _ensure_valid_yaml keeps (dates become ISO strings)
RECURSIVE _sanitize(_)
_sanitize(value) ==
  CASE value[1] = "date" -> YStr(value[2])
    [] value[1] = "list" -> YList([i \in 1..Len(value[2]) |-> _sanitize(value[2][i])])
    [] value[1] = "map" -> YMap([k \in DOMAIN value[2] |-> _sanitize(value[2][k])])
    [] OTHER -> value

\* the index of a list item as enumerate gives it and the f-string prints it
IndexText(i) == <<"0", "1", "2", "3", "4">>[i + 1]

NoFailure == [found |-> FALSE, error |-> "", path |-> <<>>]

RECURSIVE Failure(_, _), ItemsFailure(_, _, _), ItemsFailureFromOne(_, _, _),
          FieldsFailure(_, _, _)
\* the first ValueError _sanitize raises on value, walking as the code walks:
\* list items in order, the fields of a mapping in the order of its keys,
\* the key of a field before its value.  A path is the text of the error
\* message in pieces: keys, ".", "[", an index, "]"
Failure(value, path) ==
  CASE value[1] = "set" -> [found |-> TRUE, error |-> "unsupported_type", path |-> path]
    [] value[1] = "list" -> ItemsFailure(value[2], path, 1)
    [] value[1] = "map" -> FieldsFailure(value[2], path, 1)
    [] OTHER -> NoFailure

\* mutant of ItemsFailure: the items are counted from one
ItemsFailureFromOne(items, path, i) ==
  IF i > Len(items) THEN NoFailure
  ELSE IF Failure(items[i], path \o <<"[", IndexText(i), "]">>).found
  THEN Failure(items[i], path \o <<"[", IndexText(i), "]">>)
  ELSE ItemsFailureFromOne(items, path, i + 1)

ItemsFailure(items, path, i) ==
  IF i > Len(items) THEN NoFailure
  ELSE IF Failure(items[i], path \o <<"[", IndexText(i - 1), "]">>).found
  THEN Failure(items[i], path \o <<"[", IndexText(i - 1), "]">>)
  ELSE ItemsFailure(items, path, i + 1)

\* the fields of a mapping; at the top level, where path is empty, the
\* message for a key names no path and the path of a field is its key
FieldsFailure(fields, path, i) ==
  IF i > Len(KeyOrder) THEN NoFailure
  ELSE IF KeyOrder[i] \notin DOMAIN fields THEN FieldsFailure(fields, path, i + 1)
  ELSE IF BlankKey(KeyOrder[i])
  THEN [found |-> TRUE, error |-> "invalid_key",
        path |-> IF path = <<>> THEN <<>> ELSE path \o <<".", KeyOrder[i]>>]
  ELSE IF Failure(fields[KeyOrder[i]],
                  IF path = <<>> THEN <<KeyOrder[i]>>
                  ELSE path \o <<".", KeyOrder[i]>>).found
  THEN Failure(fields[KeyOrder[i]],
               IF path = <<>> THEN <<KeyOrder[i]>> ELSE path \o <<".", KeyOrder[i]>>)
  ELSE FieldsFailure(fields, path, i + 1)

\* len(yaml.safe_dump(sanitized).encode()), block style: "key: scalar\n", a
\* nested mapping indented by two, a list item as "- scalar\n"; quotes and
\* line folding are left out
RECURSIVE ValueBytes(_, _), MapBytes(_, _, _), ListBytes(_, _, _)
ValueBytes(value, indent) ==
  CASE value[1] = "str" -> 1 + Len(value[2]) + 1
    [] value[1] = "int" -> 1 + (IF value[2] < 10 THEN 1 ELSE 2) + 1
    [] value[1] = "bool" -> 1 + (IF value[2] THEN 4 ELSE 5) + 1
    [] value[1] = "null" -> 1 + 4 + 1
    [] value[1] = "nan" -> 1 + 4 + 1
    [] value[1] = "list" ->
         IF value[2] = <<>> THEN 1 + 2 + 1 ELSE 1 + ListBytes(value[2], indent, 1)
    [] value[1] = "map" ->
         IF DOMAIN value[2] = {} THEN 1 + 2 + 1
         ELSE 1 + MapBytes(value[2], indent + 2, 1)

MapBytes(metadata, indent, i) ==
  IF i > Len(KeyOrder) THEN 0
  ELSE (IF KeyOrder[i] \in DOMAIN metadata
        THEN indent + Len(KeyOrder[i]) + 1 + ValueBytes(metadata[KeyOrder[i]], indent)
        ELSE 0)
       + MapBytes(metadata, indent, i + 1)

ListBytes(items, indent, i) ==
  IF i > Len(items) THEN 0
  ELSE indent + 1 + ValueBytes(items[i], indent + 2) + ListBytes(items, indent, i + 1)

DumpedBytes(metadata) ==
  IF DOMAIN metadata = {} THEN 3 ELSE MapBytes(metadata, 0, 1)

\* _ensure_valid_yaml: the sanitized copy, or the first error it raises (a
\* key or a type, as the walk meets them, then the size of the dump)
_ensure_valid_yaml(metadata) ==
  IF FieldsFailure(metadata, <<>>, 1).found
  THEN [ok |-> FALSE, error |-> FieldsFailure(metadata, <<>>, 1).error,
        metadata |-> EmptyMap, path |-> FieldsFailure(metadata, <<>>, 1).path]
  ELSE IF DumpedBytes(_sanitize(YMap(metadata))[2]) > MAX_FRONTMATTER_BYTES
  THEN [ok |-> FALSE, error |-> "too_large", metadata |-> EmptyMap, path |-> <<>>]
  ELSE [ok |-> TRUE, error |-> "", metadata |-> _sanitize(YMap(metadata))[2],
        path |-> <<>>]

\* mutant of _deep_merge_dicts: dict.update, nested mappings are replaced whole
shallow_merge_dicts(base, updates) ==
  [k \in DOMAIN base \cup DOMAIN updates |->
     IF k \in DOMAIN updates THEN updates[k] ELSE base[k]]

\* _deep_merge_dicts: the value of merged when the loop ends
RECURSIVE _deep_merge_dicts(_, _)
_deep_merge_dicts(base, updates) ==
  [k \in DOMAIN base \cup DOMAIN updates |->
     IF k \notin DOMAIN updates THEN base[k]
     ELSE IF k \in DOMAIN base /\ base[k][1] = "map" /\ updates[k][1] = "map"
          THEN YMap(_deep_merge_dicts(base[k][2], updates[k][2]))
          ELSE updates[k]]

\* mutant of MergeCall: the loop works on base itself, no deep copy is taken
MergeCallInPlace(base, updates) ==
  [merged |-> _deep_merge_dicts(base, updates), base |-> _deep_merge_dicts(base, updates)]

\* a call of _deep_merge_dicts: what it returns, and what the caller's base
\* holds afterwards (merged is a deep copy: the loop never writes to base)
MergeCall(base, updates) ==
  [merged |-> _deep_merge_dicts(base, updates), base |-> base]

\* Python's == on the objects: True == 1 and False == 0; a NaN equals only
\* itself, the very same object
RECURSIVE PyValue(_)
PyValue(value) ==
  CASE value[1] = "bool" -> YInt(IF value[2] THEN 1 ELSE 0)
    [] value[1] = "list" -> YList([i \in 1..Len(value[2]) |-> PyValue(value[2][i])])
    [] value[1] = "map" -> YMap([k \in DOMAIN value[2] |-> PyValue(value[2][k])])
    [] OTHER -> value

PyEq(left, right) == PyValue(YMap(left)) = PyValue(YMap(right))

\* the text read_text returns for a note: a block opens the text with its
\* "---" line, a note without a block is its body
RawText(note) ==
  IF note.fm = "none" THEN ReadText(note.body) ELSE <<"-", "-", "-", NL>> \o ReadText(note.body)

\* _frontmatter_present: the text opens with "---" once its leading blanks are
\* gone, and is not the content the parser returned
_frontmatter_present(note) ==
  /\ RawText(note) # <<>>
  /\ StartsWith(LStrip(RawText(note), WsChars), <<"-", "-", "-">>)
  /\ RawText(note) # _parse_frontmatter(note).content

(***************************************************************************)
(* Frontmatter operations                                                  *)
(***************************************************************************)
NoMerge == [current |-> EmptyMap, updates |-> EmptyMap, merged |-> EmptyMap,
            base |-> EmptyMap]

\* what the caller and the disk can observe of one frontmatter call, and of
\* the call before it
FrontmatterOutcome(op, title, payload, status, loaded, merge, wrote) ==
  [op |-> op, title |-> title, payload |-> payload, status |-> status,
   loaded |-> loaded, merge |-> merge, wrote |-> wrote, pre |-> files,
   n |-> last.n + 1,
   prev |-> [op |-> last.op, payload |-> last.payload, status |-> last.status]]

NoFrontmatterCall ==
  [op |-> "none", title |-> <<>>, payload |-> EmptyMap, status |-> "",
   loaded |-> FALSE, merge |-> NoMerge, wrote |-> FALSE, pre |-> <<>>, n |-> 0,
   prev |-> [op |-> "none", payload |-> EmptyMap, status |-> ""]]

\* the outcome of a frontmatter call that raised or had nothing to write
FrontmatterKept(op, title, payload, status, loaded, merge) ==
  /\ last' = FrontmatterOutcome(op, title, payload, status, loaded, merge, FALSE)
  /\ UNCHANGED <<files, symlinks, dirs, server>>

\* the outcome of a frontmatter call that wrote the note
FrontmatterWritten(op, title, payload, status, merge, path, note) ==
  /\ files' = [files EXCEPT ![FileAt(path)] = note]
  /\ last' = FrontmatterOutcome(op, title, payload, status, TRUE, merge, TRUE)
  /\ UNCHANGED <<symlinks, dirs, server>>

\* _load_note_frontmatter: "" when the note loads, else the error raised
LoadError(res) ==
  IF ~res.ok THEN res.error
  ELSE IF FileAt(res.path) \notin DOMAIN files THEN "note_not_found"
  ELSE IF ~_parse_frontmatter(files[FileAt(res.path)]).ok THEN "parse_error"
  ELSE ""

\* mutant of update_frontmatter: the merged block is written before it is
\* validated
update_frontmatter_eager(title, frontmatter) ==
  \E updates \in {_ensure_valid_yaml(frontmatter)} :
  \E res \in {resolve_note_path(symlinks, VaultPath, title)} :
    IF ~updates.ok
    THEN FrontmatterKept("update_frontmatter", title, frontmatter, updates.error,
                         FALSE, NoMerge)
    ELSE IF LoadError(res) # ""
    THEN FrontmatterKept("update_frontmatter", title, frontmatter, LoadError(res),
                         FALSE, NoMerge)
    ELSE \E note \in {_parse_frontmatter(files[FileAt(res.path)])} :
         \E m \in {MergeCall(note.metadata, updates.metadata)} :
         \E merge \in {[current |-> note.metadata, updates |-> updates.metadata,
                        merged |-> m.merged, base |-> m.base]} :
           IF PyEq(m.merged, m.base)
           THEN FrontmatterKept("update_frontmatter", title, frontmatter, "unchanged",
                                TRUE, merge)
           ELSE \E merged_sanitized \in {_ensure_valid_yaml(m.merged)} :
                /\ files' = [files EXCEPT ![FileAt(res.path)] =
                               _serialize_frontmatter(m.merged, note.content)]
                /\ last' = FrontmatterOutcome("update_frontmatter", title, frontmatter,
                                              IF merged_sanitized.ok THEN "updated"
                                              ELSE merged_sanitized.error,
                                              TRUE, merge, TRUE)
                /\ UNCHANGED <<symlinks, dirs, server>>

update_frontmatter(title, frontmatter) ==
  \E updates \in {_ensure_valid_yaml(frontmatter)} :
  \E res \in {resolve_note_path(symlinks, VaultPath, title)} :
    IF ~updates.ok
    THEN FrontmatterKept("update_frontmatter", title, frontmatter, updates.error,
                         FALSE, NoMerge)
    ELSE IF LoadError(res) # ""
    THEN FrontmatterKept("update_frontmatter", title, frontmatter, LoadError(res),
                         FALSE, NoMerge)
    ELSE \E note \in {_parse_frontmatter(files[FileAt(res.path)])} :
         \E m \in {MergeCall(note.metadata, updates.metadata)} :
         \E merge \in {[current |-> note.metadata, updates |-> updates.metadata,
                        merged |-> m.merged, base |-> m.base]} :
           IF PyEq(m.merged, m.base)
           THEN FrontmatterKept("update_frontmatter", title, frontmatter, "unchanged",
                                TRUE, merge)
           ELSE \E merged_sanitized \in {_ensure_valid_yaml(m.merged)} :
                IF ~merged_sanitized.ok
                THEN FrontmatterKept("update_frontmatter", title, frontmatter,
                                     merged_sanitized.error, TRUE, merge)
                ELSE FrontmatterWritten("update_frontmatter", title, frontmatter,
                                        "updated", merge, res.path,
                                        _serialize_frontmatter(merged_sanitized.metadata,
                                                               note.content))

replace_frontmatter(title, frontmatter) ==
  \E replacement \in {_ensure_valid_yaml(frontmatter)} :
  \E res \in {resolve_note_path(symlinks, VaultPath, title)} :
    IF ~replacement.ok
    THEN FrontmatterKept("replace_frontmatter", title, frontmatter, replacement.error,
                         FALSE, NoMerge)
    ELSE IF LoadError(res) # ""
    THEN FrontmatterKept("replace_frontmatter", title, frontmatter, LoadError(res),
                         FALSE, NoMerge)
    ELSE \E note \in {_parse_frontmatter(files[FileAt(res.path)])} :
           FrontmatterWritten("replace_frontmatter", title, frontmatter, "replaced",
                              NoMerge, res.path,
                              _serialize_frontmatter(replacement.metadata, note.content))

\* mutant of delete_frontmatter: the note is written back whether or not it
\* has a block
delete_frontmatter_always(title) ==
  \E res \in {resolve_note_path(symlinks, VaultPath, title)} :
    IF LoadError(res) # ""
    THEN FrontmatterKept("delete_frontmatter", title, EmptyMap, LoadError(res),
                         FALSE, NoMerge)
    ELSE \E note \in {_parse_frontmatter(files[FileAt(res.path)])} :
           FrontmatterWritten("delete_frontmatter", title, EmptyMap, "deleted",
                              NoMerge, res.path,
                              _serialize_frontmatter(EmptyMap, note.content))

delete_frontmatter(title) ==
  \E res \in {resolve_note_path(symlinks, VaultPath, title)} :
    IF LoadError(res) # ""
    THEN FrontmatterKept("delete_frontmatter", title, EmptyMap, LoadError(res),
                         FALSE, NoMerge)
    ELSE IF ~_frontmatter_present(files[FileAt(res.path)])
    THEN FrontmatterKept("delete_frontmatter", title, EmptyMap, "no_frontmatter",
                         TRUE, NoMerge)
    ELSE \E note \in {_parse_frontmatter(files[FileAt(res.path)])} :
           FrontmatterWritten("delete_frontmatter", title, EmptyMap, "deleted",
                              NoMerge, res.path,
                              _serialize_frontmatter(EmptyMap, note.content))

read_frontmatter(title) ==
  \E res \in {resolve_note_path(symlinks, VaultPath, title)} :
    IF LoadError(res) # ""
    THEN FrontmatterKept("read_frontmatter", title, EmptyMap, LoadError(res),
                         FALSE, NoMerge)
    ELSE FrontmatterKept("read_frontmatter", title, EmptyMap, "read", TRUE, NoMerge)

(***************************************************************************)
(* Inputs of the frontmatter specification                                 *)
(***************************************************************************)
MaxCalls == 2

Key(k, value) == [j \in {k} |-> value]

Body == <<NL, "x", NL>>

HandNote(entries) == [fm |-> "yaml", layout |-> "hand", entries |-> entries, body |-> Body]

\* "xxxxxxxxxx" doubled ten times: 10240 characters
RECURSIVE Doubled(_, _)
Doubled(s, times) == IF times = 0 THEN s ELSE Doubled(s \o s, times - 1)

BigString == Doubled("xxxxxxxxxx", 10)

ProjectPlanned == Key("project", YMap([k \in {"status", "owner"} |->
                    IF k = "status" THEN YStr("planned") ELSE YStr("alice")]))

ProjectActive == Key("project", YMap(Key("status", YStr("active"))))

ProjectMerged == Key("project", YMap([k \in {"status", "owner"} |->
                   IF k = "status" THEN YStr("active") ELSE YStr("alice")]))

\* the notes a call can find: without a block, with blocks a person wrote
\* (a nested mapping, a date and a list, a set, a block that almost fills the
\* cap, a block that is no YAML), with a block the server wrote, and without
\* a block but opening with a thematic break, a lone "---" line
FrontmatterNotes ==
  <<[fm |-> "none", layout |-> "hand", entries |-> <<>>, body |-> <<"x", NL>>],
    HandNote(<< <<"status", YStr("planned")>>, <<"done", YInt(1)>> >>),
    HandNote(<< <<"project", ProjectPlanned["project"]>> >>),
    HandNote(<< <<"tags", YList(<<YStr("a"), YStr("b")>>)>>,
                <<"created", YDate("2025-10-26")>> >>),
    HandNote(<< <<"bad", YSet>> >>),
    HandNote(<< <<"filler", YStr(SubSeq(BigString, 1, MAX_FRONTMATTER_BYTES - 16))>> >>),
    [fm |-> "bad", layout |-> "hand", entries |-> <<>>, body |-> Body],
    [fm |-> "yaml", layout |-> "dumped", entries |-> << <<"status", YStr("active")>> >>,
     body |-> <<NL, NL, "x">>],
    [fm |-> "none", layout |-> "hand", entries |-> <<>>,
     body |-> <<"-", "-", "-", NL, "x", NL>>]>>

\* the payloads a caller can send
Payloads ==
  <<Key("status", YStr("active")),
    ProjectActive,
    Key("tags", YList(<<YStr("c")>>)),
    Key("done", YBool(TRUE)),
    Key("x", YNaN("payload")),
    Key("due", YDate("2025-11-01")),
    Key("bad", YSet),
    Key("big", YStr(BigString)),
    Key(" ", YInt(1)),
    EmptyMap>>

InitFrontmatter ==
  /\ \E i \in 1..Len(FrontmatterNotes) : files = [p \in {NotePath} |-> FrontmatterNotes[i]]
  /\ symlinks = NoLinks
  /\ ServerAtStart
  /\ dirs = DirsOf(files)
  /\ last = NoFrontmatterCall

MoreCalls == last.n < MaxCalls

NextFrontmatter ==
  \/ MoreCalls /\ \E i \in 1..Len(Payloads) : update_frontmatter(NoteTitle, Payloads[i])
  \/ MoreCalls /\ \E i \in 1..Len(Payloads) : replace_frontmatter(NoteTitle, Payloads[i])
  \/ MoreCalls /\ delete_frontmatter(NoteTitle)
  \/ MoreCalls /\ read_frontmatter(NoteTitle)

SpecFrontmatter == InitFrontmatter /\ [][NextFrontmatter]_vars

(***************************************************************************)
(* Properties of the frontmatter operations                                *)
(***************************************************************************)
\* the last two calls were update_frontmatter with one payload, and the first
\* of them returned a status
UpdatedTwice ==
  /\ last.n >= 2
  /\ last.op = "update_frontmatter" /\ last.prev.op = "update_frontmatter"
  /\ last.payload = last.prev.payload
  /\ last.prev.status \in {"updated", "unchanged"}

\* C8: the second of two update_frontmatter calls with the same payload
\* returns "unchanged", and the note's bytes are those the first call left
C8_SecondUpdateUnchanged ==
  UpdatedTwice => (last.status = "unchanged" /\ files = last.pre)

RECURSIVE HasNaN(_)
HasNaN(value) ==
  CASE value[1] = "nan" -> TRUE
    [] value[1] = "list" -> \E i \in 1..Len(value[2]) : HasNaN(value[2][i])
    [] value[1] = "map" -> \E k \in DOMAIN value[2] : HasNaN(value[2][k])
    [] OTHER -> FALSE

\* what does hold of the second call: the bytes stay whatever the payload, and
\* the status is "unchanged" for every payload without a NaN
SecondUpdateKeepsBytes ==
  UpdatedTwice =>
    /\ files = last.pre
    /\ ~HasNaN(YMap(last.payload)) => last.status = "unchanged"

SecondUpdateOfNaN ==
  UpdatedTwice /\ HasNaN(YMap(last.payload)) /\ last.status = "updated" /\ last.wrote

\* result is the deep merge of updates into base, said key by key
RECURSIVE IsDeepMerge(_, _, _)
IsDeepMerge(result, base, updates) ==
  /\ DOMAIN result = DOMAIN base \cup DOMAIN updates
  /\ \A k \in DOMAIN result :
       IF k \notin DOMAIN updates THEN result[k] = base[k]
       ELSE IF k \in DOMAIN base /\ base[k][1] = "map" /\ updates[k][1] = "map"
            THEN /\ result[k][1] = "map"
                 /\ IsDeepMerge(result[k][2], base[k][2], updates[k][2])
            ELSE result[k] = updates[k]

Merged == last.op = "update_frontmatter" /\ last.loaded

\* C9: in the merge of updates into base a key absent from updates keeps
\* base's value, a key that holds a mapping on both sides holds their merge,
\* any other key of updates holds the value of updates whole (a list replaces
\* a list); base is as it was before the call; {project: {status: active}}
\* merged into {project: {status: planned, owner: alice}} gives
\* {project: {status: active, owner: alice}}
C9_DeepMerge ==
  Merged =>
    /\ IsDeepMerge(last.merge.merged, last.merge.current, last.merge.updates)
    /\ last.merge.base = last.merge.current
    /\ (last.merge.current = ProjectPlanned /\ last.merge.updates = ProjectActive)
         => last.merge.merged = ProjectMerged
    /\ \A k \in DOMAIN last.merge.updates :
         last.merge.updates[k][1] = "list" => last.merge.merged[k] = last.merge.updates[k]

C9_Witness ==
  /\ Merged /\ last.status = "updated"
  /\ last.merge.current = ProjectPlanned /\ last.merge.updates = ProjectActive
  /\ last.merge.merged = ProjectMerged

\* an update or a replacement that failed for the type of a field, for the
\* size of the block, or for the note's own block being no YAML
FailedFrontmatterWrite ==
  /\ last.op \in {"update_frontmatter", "replace_frontmatter"}
  /\ last.status \in {"unsupported_type", "too_large", "parse_error"}

\* C10: after an update_frontmatter or replace_frontmatter that failed for an
\* unsupported field type, for the size cap or for an unparsable block in the
\* note, the note's bytes are what they were before the call
C10_FailedWriteKeepsNote == FailedFrontmatterWrite => files = last.pre

\* the merged block, not the payload, is the one over the cap
C10_Witness ==
  /\ last.op = "update_frontmatter" /\ last.status = "too_large" /\ last.loaded
  /\ files = last.pre

\* the block as YAML says it: a NaN is a NaN whichever object holds it
SameYaml(left, right) == Dumped(YMap(left)) = Dumped(YMap(right))

\* the note the last call loaded
LoadedNote == last.pre[NotePath]

\* update_frontmatter loaded the note and its merge gave the metadata the
\* note had
MergeChangedNothing ==
  /\ last.op = "update_frontmatter" /\ last.loaded
  /\ SameYaml(last.merge.merged, last.merge.current)

\* delete_frontmatter loaded a note that has no block
DeleteWithoutBlock ==
  last.op = "delete_frontmatter" /\ last.loaded /\ LoadedNote.fm = "none"

\* C16: an update_frontmatter whose merge leaves the metadata as it was
\* returns "unchanged", a delete_frontmatter on a note without a block returns
\* "no_frontmatter", and neither writes the note
C16_NoOpsDoNotWrite ==
  /\ MergeChangedNothing => (last.status = "unchanged" /\ ~last.wrote /\ files = last.pre)
  /\ DeleteWithoutBlock => (last.status = "no_frontmatter" /\ ~last.wrote /\ files = last.pre)

\* a note without a block that opens with "---" and is not already stripped
OpensWithBreak(note) ==
  /\ note.fm = "none"
  /\ StartsWith(LStrip(ReadText(note.body), WsChars), <<"-", "-", "-">>)
  /\ ReadText(note.body) # Strip(ReadText(note.body))

\* what does hold: NaN payloads and notes opening with a thematic break
\* aside, the two no-ops return their status and write nothing
NoOpsOfPlainNotes ==
  /\ (MergeChangedNothing /\ ~HasNaN(YMap(last.payload))) =>
       (last.status = "unchanged" /\ ~last.wrote /\ files = last.pre)
  /\ (DeleteWithoutBlock /\ ~OpensWithBreak(LoadedNote)) =>
       (last.status = "no_frontmatter" /\ ~last.wrote /\ files = last.pre)

\* delete_frontmatter rewrote a note that had no block
DeleteWroteWithoutBlock ==
  DeleteWithoutBlock /\ last.status = "deleted" /\ last.wrote /\ files # last.pre

\* both no-ops happen
NoOpsHappen ==
  \/ MergeChangedNothing /\ last.status = "unchanged"
  \/ DeleteWithoutBlock /\ last.status = "no_frontmatter"

\* a block that parses and holds no value sanitizing would alter or refuse
WellFormed(note) ==
  /\ note.fm = "yaml"
  /\ _ensure_valid_yaml(FromEntries(note.entries)).ok
  /\ _ensure_valid_yaml(FromEntries(note.entries)).metadata = FromEntries(note.entries)

\* serialize(parse(text))
RoundTrip(note) ==
  _serialize_frontmatter(_parse_frontmatter(note).metadata, _parse_frontmatter(note).content)

\* C15 as stated: every note with a well-formed block whose fields need no
\* sanitizing is the text serialize(parse(text)) gives
C15_RoundTripAny ==
  \A p \in DOMAIN files : WellFormed(files[p]) => RoundTrip(files[p]) = files[p]

\* an operation wrote the note, block included
WroteBlock(p) == last.wrote /\ files[p] # last.pre[p] /\ files[p].fm = "yaml"

\* C15 amended: every note as update_frontmatter or replace_frontmatter wrote
\* it, that is every text serialize itself produced from a block that is not
\* empty, is the text serialize(parse(text)) gives
C15_RoundTripWritten ==
  \A p \in DOMAIN files : WroteBlock(p) => RoundTrip(files[p]) = files[p]

\* a note a person wrote does not come back as it was; once written by an
\* operation it does
C15_Witness ==
  /\ WroteBlock(NotePath)
  /\ WellFormed(last.pre[NotePath])
  /\ RoundTrip(last.pre[NotePath]) # last.pre[NotePath]
  /\ RoundTrip(files[NotePath]) = files[NotePath]

(***************************************************************************)
(* Identifier normalisation: one call of a normaliser on an identifier     *)
(* with or without a markdown suffix, written in any letter case           *)
(***************************************************************************)
\* segment names: plain, and with dots of their own
NameSegments == {<<"n">>, <<"d">>, <<"a", ".", "b">>}

MdSuffixes ==
  {<<>>, <<".", "m", "d">>, <<".", "M", "D">>, <<".", "M", "d">>, <<".", "m", "D">>}

BaseIdentifiers ==
  {Join(parts) : parts \in UNION {[1..k -> NameSegments] : k \in 1..MaxSegments}}

SuffixedIdentifiers == {base \o suffix : base \in BaseIdentifiers, suffix \in MdSuffixes}

NoNormalization == [op |-> "none", title |-> <<>>, ok |-> FALSE, relative |-> <<>>]

\* the relative path a normaliser returned, or that it raised
Normalized(op, identifier, n) ==
  /\ last' = [op |-> op, title |-> identifier, ok |-> n.ok, relative |-> n.relative]
  /\ UNCHANGED <<files, symlinks, dirs, server>>

InitIdentifier ==
  /\ files = NoFiles
  /\ symlinks = NoLinks
  /\ ServerAtStart
  /\ dirs = DirsOf(files)
  /\ last = NoNormalization

NextIdentifier ==
  \/ Idle /\ \E identifier \in SuffixedIdentifiers :
               Normalized("normalize_note_identifier", identifier,
                          normalize_note_identifier(identifier))
  \/ Idle /\ \E identifier \in SuffixedIdentifiers :
               Normalized("_normalize_note_identifier", identifier,
                          _normalize_note_identifier(identifier))
  \/ Idle /\ \E identifier \in SuffixedIdentifiers :
               Normalized("validate_title", identifier, validated_note_path(identifier))

SpecIdentifier == InitIdentifier /\ [][NextIdentifier]_vars

\* the identifier ends with ".md" in some letter case
HasMdSuffix(identifier) ==
  /\ Len(identifier) > 3
  /\ Lower(SubSeq(identifier, Len(identifier) - 2, Len(identifier))) = MD

WithoutSuffix(identifier) == SubSeq(identifier, 1, Len(identifier) - 3)

\* the segments of an identifier, and the path that appends ".md" to the last
SegmentsOf(identifier) == Split(identifier, SLASH)

WithMd(segments) ==
  [i \in 1..Len(segments) |-> IF i = Len(segments) THEN segments[i] \o MD ELSE segments[i]]

\* what the normaliser of the last call gives for another identifier
SameNormalizer(identifier) ==
  CASE last.op = "normalize_note_identifier" -> normalize_note_identifier(identifier)
    [] last.op = "_normalize_note_identifier" -> _normalize_note_identifier(identifier)
    [] OTHER -> validated_note_path(identifier)

\* a normaliser was called on an identifier that ends with one markdown suffix
NormalizedSuffixed ==
  /\ last.op # "none"
  /\ HasMdSuffix(last.title)
  /\ ~HasMdSuffix(WithoutSuffix(last.title))

\* the suffix counts whatever its letter case: the path is that of the
\* identifier without it, the segments with one ".md" on the last
SuffixStripped ==
  /\ last.ok
  /\ last.relative = SameNormalizer(WithoutSuffix(last.title)).relative
  /\ last.relative = WithMd(SegmentsOf(WithoutSuffix(last.title)))

\* C17: normalising an identifier that ends with ".md" in any letter case
\* gives the path of the identifier without the suffix, the segments with
\* exactly one ".md" on the last and every other dot kept
C17_SuffixAnyCase == NormalizedSuffixed => SuffixStripped

\* what does hold: the monolith normaliser strips the suffix in any letter
\* case, the core normaliser and the input model the lower-case one only
SuffixAsWritten ==
  (NormalizedSuffixed /\ (last.op = "_normalize_note_identifier"
                          \/ EndsWith(last.title, MD)))
    => SuffixStripped

\* the core normaliser kept an upper-case suffix inside the file name
UpperSuffixKept ==
  /\ NormalizedSuffixed /\ last.op = "normalize_note_identifier" /\ last.ok
  /\ last.relative = WithMd(SegmentsOf(last.title))
  /\ ~EndsWith(last.title, MD)

\* the monolith normaliser stripped an upper-case suffix after dotted names
UpperSuffixStripped ==
  /\ NormalizedSuffixed /\ last.op = "_normalize_note_identifier" /\ SuffixStripped
  /\ ~EndsWith(last.title, MD)
  /\ \E i \in 1..(Len(last.title) - 3) : last.title[i] = "."

(***************************************************************************)
(* Tag search.  Tags are strings; a note is the frontmatter record of the  *)
(* FrontmatterCodec.                                                       *)
(***************************************************************************)
\* str.lower() and str.strip() on a string
RECURSIVE StrLower(_)
StrLower(s) ==
  IF s = "" THEN "" ELSE LowerChar(SubSeq(s, 1, 1)) \o StrLower(SubSeq(s, 2, Len(s)))

RECURSIVE StrLStrip(_)
StrLStrip(s) ==
  IF s # "" /\ IsWs(SubSeq(s, 1, 1)) THEN StrLStrip(SubSeq(s, 2, Len(s))) ELSE s

RECURSIVE StrRStrip(_)
StrRStrip(s) ==
  IF s # "" /\ IsWs(SubSeq(s, Len(s), Len(s))) THEN StrRStrip(SubSeq(s, 1, Len(s) - 1))
  ELSE s

StrStrip(s) == StrLStrip(StrRStrip(s))

\* str(tag) of an item of a tags list
PyStr(value) ==
  CASE value[1] = "str" -> value[2]
    [] value[1] = "int" -> ToString(value[2])
    [] value[1] = "bool" -> IF value[2] THEN "True" ELSE "False"
    [] value[1] = "null" -> "None"
    [] value[1] = "nan" -> "nan"
    [] value[1] = "date" -> value[2]
    [] value[1] = "list" -> "[...]"
    [] OTHER -> "{...}"

\* the items of a sequence that satisfy keep, in order
RECURSIVE NonEmpty(_)
NonEmpty(items) ==
  IF items = <<>> THEN <<>>
  ELSE (IF Head(items) # "" THEN <<Head(items)>> ELSE <<>>) \o NonEmpty(Tail(items))

\* [tag.strip().lower() for tag in tags if tag.strip()]
normalized_search_tags(tags) ==
  NonEmpty([i \in 1..Len(tags) |-> StrLower(StrStrip(tags[i]))])

\* normalized_note_tags of parsed metadata; skip = TRUE where the loop says
\* `continue` (tags is neither a string nor a list, or no tag is left)
normalized_note_tags(metadata) ==
  IF "tags" \notin DOMAIN metadata THEN <<>>
  ELSE IF metadata["tags"][1] = "str"
       THEN NonEmpty(<<StrLower(StrStrip(metadata["tags"][2]))>>)
  ELSE IF metadata["tags"][1] = "list"
       THEN NonEmpty([i \in 1..Len(metadata["tags"][2]) |->
                        StrLower(StrStrip(PyStr(metadata["tags"][2][i])))])
  ELSE <<>>

Items(seq) == {seq[i] : i \in 1..Len(seq)}

\* mutant of has_match: any() and all() are swapped
has_match_swapped(note_tags, search_tags, match_all) ==
  IF match_all THEN \E t \in Items(search_tags) : t \in Items(note_tags)
  ELSE \A t \in Items(search_tags) : t \in Items(note_tags)

\* has_match: all() or any() over the search tags
has_match(note_tags, search_tags, match_all) ==
  IF match_all THEN \A t \in Items(search_tags) : t \in Items(note_tags)
  ELSE \E t \in Items(search_tags) : t \in Items(note_tags)

\* one round of the loop over vault.path.rglob("*.md"): is the note a match
NoteMatches(note, search_tags, match_all) ==
  /\ note.fm # "none"
  /\ _parse_frontmatter(note).ok
  /\ normalized_note_tags(_parse_frontmatter(note).metadata) # <<>>
  /\ has_match(normalized_note_tags(_parse_frontmatter(note).metadata), search_tags,
               match_all)

\* the files rglob("*.md") yields: below the vault directory, named *.md
Scanned(fs, path) ==
  /\ path \in DOMAIN fs
  /\ IsRelativeTo(path, VaultPath) /\ Len(path) > Len(VaultPath)
  /\ EndsWith(path[Len(path)], MD)

\* note_path.relative_to(vault.path).with_suffix("").as_posix()
RelativeName(path) ==
  Join(SubSeq(path, Len(VaultPath) + 1, Len(path) - 1)
       \o <<Slice(path[Len(path)], 0, Len(path[Len(path)]) - 3)>>)

\* the matches in the order matches.sort() leaves them: order lists every path
\* of the model by its relative name
RECURSIVE SortedMatches(_, _, _, _)
SortedMatches(fs, order, search_tags, match_all) ==
  IF order = <<>> THEN <<>>
  ELSE (IF Scanned(fs, Head(order)) /\ NoteMatches(fs[Head(order)], search_tags, match_all)
        THEN <<RelativeName(Head(order))>> ELSE <<>>)
       \o SortedMatches(fs, Tail(order), search_tags, match_all)

PathA == VaultPath \o << <<"a", ".", "m", "d">> >>

PathB == VaultPath \o << <<"d">>, <<"b", ".", "m", "d">> >>

PathTxt == VaultPath \o << <<"t", ".", "t", "x", "t">> >>

PathOutside == << <<"o">>, <<"c", ".", "m", "d">> >>

\* every path of the model, by relative name
PathOrder == <<PathA, PathOutside, PathB, PathTxt>>

SearchOutcome(op, tags, match_all, status, matches) ==
  [op |-> op, tags |-> tags, match_all |-> match_all, status |-> status,
   matches |-> matches]

NoSearch == SearchOutcome("none", <<>>, FALSE, "", <<>>)

\* core search_notes_by_tags
search_notes_by_tags(tags, match_all) ==
  /\ last' = IF normalized_search_tags(tags) = <<>>
             THEN SearchOutcome("search_notes_by_tags", tags, match_all, "no_tags", <<>>)
             ELSE SearchOutcome("search_notes_by_tags", tags, match_all, "searched",
                                SortedMatches(files, PathOrder,
                                              normalized_search_tags(tags), match_all))
  /\ UNCHANGED <<files, symlinks, dirs, server>>

\* SearchNotesByTagInput.validate_tags: the tags stripped, the blank ones dropped
validate_tags(v) ==
  [ok |-> NonEmpty([i \in 1..Len(v) |-> StrStrip(v[i])]) # <<>>,
   tags |-> NonEmpty([i \in 1..Len(v) |-> StrStrip(v[i])])]

\* the tool: the input model, then the core search
search_notes_by_tag(tags, match_all) ==
  IF ~validate_tags(tags).ok
  THEN /\ last' = SearchOutcome("search_notes_by_tag", tags, match_all, "invalid_tags", <<>>)
       /\ UNCHANGED <<files, symlinks, dirs, server>>
  ELSE search_notes_by_tags(validate_tags(tags).tags, match_all)

(***************************************************************************)
(* Inputs of the tag search specification                                  *)
(***************************************************************************)
MaxTags == 2

Tagged(value) == HandNote(<< <<"tags", value>> >>)

\* notes with a list of tags, one tag as a string, tags that are no strings,
\* tags of no use (a number, an empty list, blanks), no tags, no block, and a
\* block that is no YAML
TagNotes ==
  <<Tagged(YList(<<YStr("a"), YStr("B")>>)),
    Tagged(YStr(" A ")),
    Tagged(YList(<<YStr("b"), YInt(1), YStr("")>>)),
    Tagged(YList(<<YStr("c"), YStr("a"), YStr("b")>>)),
    Tagged(YInt(5)),
    Tagged(YList(<<YStr(" ")>>)),
    HandNote(<< <<"status", YStr("a")>> >>),
    [fm |-> "none", layout |-> "hand", entries |-> <<>>, body |-> <<"a", NL>>],
    [fm |-> "bad", layout |-> "hand", entries |-> <<>>, body |-> Body]>>

SearchTags == {"a", "A ", "b", "c", "1", " "}

TagLists == UNION {[1..k -> SearchTags] : k \in 1..MaxTags}

InitTags ==
  /\ \E i, j \in 1..Len(TagNotes) :
       files = [p \in {PathA, PathB, PathTxt, PathOutside} |->
                  IF p = PathA THEN TagNotes[i]
                  ELSE IF p = PathB THEN TagNotes[j]
                  ELSE TagNotes[1]]
  /\ symlinks = NoLinks
  /\ ServerAtStart
  /\ dirs = DirsOf(files)
  /\ last = NoSearch

NotSearched == last.op = "none"

NextTags ==
  \/ NotSearched /\ \E tags \in TagLists, match_all \in BOOLEAN :
                     search_notes_by_tag(tags, match_all)
  \/ NotSearched /\ \E tags \in TagLists, match_all \in BOOLEAN :
                     search_notes_by_tags(tags, match_all)

SpecTags == InitTags /\ [][NextTags]_vars

(***************************************************************************)
(* Properties of the tag search                                            *)
(***************************************************************************)
Searched == last.op # "none" /\ last.status = "searched"

\* the tags asked for: the entries of the request that are not blank
Requested == {t \in Items(last.tags) : StrStrip(t) # ""}

\* the notes a search for the one tag t finds in the vault as it is
SingleTagResult(t) == Items(SortedMatches(files, PathOrder, normalized_search_tags(<<t>>), FALSE))

\* the tags a note carries: a block that parses, with a tags field that is a
\* string or a list; blank entries are no tags
CarriedTags(path) ==
  IF files[path].fm # "yaml" \/ "tags" \notin DOMAIN FromEntries(files[path].entries)
  THEN {}
  ELSE IF FromEntries(files[path].entries)["tags"][1] = "str"
       THEN {FromEntries(files[path].entries)["tags"][2]}
  ELSE IF FromEntries(files[path].entries)["tags"][1] = "list"
       THEN {PyStr(x) : x \in Items(FromEntries(files[path].entries)["tags"][2])}
  ELSE {}

\* t is among the tags the note carries, letter case and outer blanks aside
Carries(path, t) ==
  \E x \in CarriedTags(path) :
    StrStrip(x) # "" /\ StrLower(StrStrip(x)) = StrLower(StrStrip(t))

VaultNotes == {p \in DOMAIN files : Scanned(files, p)}

\* C14: a search with match_all returns exactly the notes of the vault that
\* carry every requested tag, a search without it exactly those that carry at
\* least one, tags compared without regard to letter case; so the AND result
\* is the intersection and the OR result the union of the results of the
\* searches for the single tags
C14_TagSearch ==
  Searched =>
    /\ Items(last.matches) =
         {RelativeName(p) : p \in {q \in VaultNotes :
            IF last.match_all THEN \A t \in Requested : Carries(q, t)
            ELSE \E t \in Requested : Carries(q, t)}}
    /\ \A n \in Items(last.matches) :
         IF last.match_all THEN \A t \in Requested : n \in SingleTagResult(t)
         ELSE \E t \in Requested : n \in SingleTagResult(t)
    /\ \A n \in {RelativeName(p) : p \in VaultNotes} :
         (IF last.match_all THEN \A t \in Requested : n \in SingleTagResult(t)
          ELSE \E t \in Requested : n \in SingleTagResult(t))
           => n \in Items(last.matches)

\* two tags asked for in other letter cases than the notes spell them; one
\* note carries both, the other only one, so AND and OR differ
C14_Witness ==
  /\ Searched /\ last.match_all
  /\ Cardinality(Requested) = 2
  /\ Len(last.matches) = 1
  /\ \E t \in Requested : Cardinality(SingleTagResult(t)) = 2
  /\ \E t \in Requested : \E p \in VaultNotes : Carries(p, t) /\ t \notin CarriedTags(p)

(***************************************************************************)
(* move_note and its backlink scan.  A file of the move specification is a *)
(* record: the text its bytes decode to, whether the bytes are UTF-8 at    *)
(* all, and what the process may do with the file ("rw", "ro": open for    *)
(* writing raises PermissionError, "no": open for reading raises it too).  *)
(***************************************************************************)
MoveFile(text, access, utf8) == [text |-> text, access |-> access, utf8 |-> utf8]

\* the number of characters from offset o that are not c: the run [^c]*
RunOfNot(text, o, c) ==
  IF \E k \in (o + 1)..Len(text) : text[k] = c
  THEN Min({k \in (o + 1)..Len(text) : text[k] = c}) - 1 - o
  ELSE Len(text) - o

\* the length of the match of
\*   \[\[ + re.escape(old_title) + (?P<alias>\|[^\]]+)?\]\]
\* that begins at offset i, 0 when there is none
WikilinkMatch(text, i, old_title) ==
  LET open == <<"[", "[">> \o old_title
      j == i + Len(open)
      alias == RunOfNot(text, j + 1, "]")
  IN  IF ~StartsWith(Slice(text, i, Len(text)), open) THEN 0
      ELSE IF StartsWith(Slice(text, j, Len(text)), <<"]", "]">>) THEN Len(open) + 2
      ELSE IF /\ j < Len(text) /\ text[j + 1] = "|" /\ alias >= 1
              /\ StartsWith(Slice(text, j + 1 + alias, Len(text)), <<"]", "]">>)
           THEN Len(open) + 1 + alias + 2
      ELSE 0

\* the length of the match of
\*   \[(?P<label>[^\]]+)\]\( + re.escape(old_title) + (?P<ext>\.md)?\)
\* that begins at offset i, 0 when there is none; ext is 3 or 0
MarkdownLinkMatch(text, i, old_title) ==
  LET label == RunOfNot(text, i + 1, "]")
      j == i + 1 + label
      target == <<"]", "(">> \o old_title
      k == j + Len(target)
  IN  IF ~(i < Len(text) /\ text[i + 1] = "[" /\ label >= 1) THEN 0
      ELSE IF ~StartsWith(Slice(text, j, Len(text)), target) THEN 0
      ELSE IF StartsWith(Slice(text, k, Len(text)), MD \o <<")">>)
           THEN 1 + label + Len(target) + 4
      ELSE IF StartsWith(Slice(text, k, Len(text)), <<")">>)
           THEN 1 + label + Len(target) + 1
      ELSE 0

RECURSIVE SubWikilinksNoAlias(_, _, _, _)
\* mutant of SubWikilinks: the alias of a rewritten wikilink is dropped
SubWikilinksNoAlias(text, i, old_title, new_title) ==
  IF i >= Len(text) THEN <<>>
  ELSE LET n == WikilinkMatch(text, i, old_title)
       IN  IF n = 0
           THEN <<text[i + 1]>> \o SubWikilinksNoAlias(text, i + 1, old_title, new_title)
           ELSE <<"[", "[">> \o new_title \o <<"]", "]">>
                  \o SubWikilinksNoAlias(text, i + n, old_title, new_title)

RECURSIVE SubWikilinks(_, _, _, _)
\* wikilink_pattern.sub(_replace_wikilink, content) from offset i on
SubWikilinks(text, i, old_title, new_title) ==
  IF i >= Len(text) THEN <<>>
  ELSE LET n == WikilinkMatch(text, i, old_title)
           alias == Slice(text, i + 2 + Len(old_title), i + n - 2)
       IN  IF n = 0
           THEN <<text[i + 1]>> \o SubWikilinks(text, i + 1, old_title, new_title)
           ELSE <<"[", "[">> \o new_title \o alias \o <<"]", "]">>
                  \o SubWikilinks(text, i + n, old_title, new_title)

RECURSIVE SubMarkdownLinks(_, _, _, _)
\* markdown_link_pattern.sub(_replace_markdown, updated) from offset i on
SubMarkdownLinks(text, i, old_title, new_title) ==
  IF i >= Len(text) THEN <<>>
  ELSE LET n == MarkdownLinkMatch(text, i, old_title)
           label == RunOfNot(text, i + 1, "]")
           ext == Slice(text, i + 1 + label + 2 + Len(old_title), i + n - 1)
       IN  IF n = 0
           THEN <<text[i + 1]>> \o SubMarkdownLinks(text, i + 1, old_title, new_title)
           ELSE <<"[">> \o Slice(text, i + 1, i + 1 + label) \o <<"]", "(">>
                  \o new_title \o ext \o <<")">>
                  \o SubMarkdownLinks(text, i + n, old_title, new_title)

\* the text the scan computes for one note: wikilinks first, markdown links
\* in the result
UpdatedLinks(text, old_title, new_title) ==
  SubMarkdownLinks(SubWikilinks(text, 0, old_title, new_title), 0,
                   old_title, new_title)

\* note_display_name: the path relative to the vault without its suffix,
\* joined with "/"
note_display_name(path) ==
  LET rel == SubSeq(path, Len(VaultPath) + 1, Len(path))
      leaf == rel[Len(rel)]
      stem == IF EndsWith(leaf, MD) THEN Slice(leaf, 0, Len(leaf) - 3) ELSE leaf
  IN  Join([rel EXCEPT ![Len(rel)] = stem])

RECURSIVE ScanBacklinksStop(_, _, _, _, _, _)
\* mutant of ScanBacklinks: the first note whose read or write raises OSError
\* ends the scan
ScanBacklinksStop(fs, order, i, count, old_title, new_title) ==
  IF i > Len(order) THEN [fs |-> fs, count |-> count, raised |-> FALSE]
  ELSE IF fs[order[i]].access = "no"
  THEN [fs |-> fs, count |-> count, raised |-> FALSE]
  ELSE IF ~fs[order[i]].utf8 THEN [fs |-> fs, count |-> count, raised |-> TRUE]
  ELSE IF UpdatedLinks(fs[order[i]].text, old_title, new_title) = fs[order[i]].text
  THEN ScanBacklinksStop(fs, order, i + 1, count, old_title, new_title)
  ELSE IF fs[order[i]].access = "ro"
  THEN [fs |-> fs, count |-> count, raised |-> FALSE]
  ELSE ScanBacklinksStop(
         [fs EXCEPT ![order[i]].text = UpdatedLinks(@, old_title, new_title)],
         order, i + 1, count + 1, old_title, new_title)

RECURSIVE ScanBacklinks(_, _, _, _, _, _)
\* the loop of _update_backlinks over the notes in the order rglob yields
\* them: a note whose read raises OSError is skipped, a note whose bytes do
\* not decode raises UnicodeDecodeError, which no handler of the loop catches
\* and which ends the scan; an unchanged note is not written, a changed note
\* whose write raises OSError is skipped without being counted
ScanBacklinks(fs, order, i, count, old_title, new_title) ==
  IF i > Len(order) THEN [fs |-> fs, count |-> count, raised |-> FALSE]
  ELSE IF fs[order[i]].access = "no"
  THEN ScanBacklinks(fs, order, i + 1, count, old_title, new_title)
  ELSE IF ~fs[order[i]].utf8 THEN [fs |-> fs, count |-> count, raised |-> TRUE]
  ELSE IF UpdatedLinks(fs[order[i]].text, old_title, new_title) = fs[order[i]].text
         \/ fs[order[i]].access = "ro"
  THEN ScanBacklinks(fs, order, i + 1, count, old_title, new_title)
  ELSE ScanBacklinks(
         [fs EXCEPT ![order[i]].text = UpdatedLinks(@, old_title, new_title)],
         order, i + 1, count + 1, old_title, new_title)

_update_backlinks(fs, order, old_title, new_title) ==
  ScanBacklinks(fs, order, 1, 0, old_title, new_title)

\* the orders in which rglob may yield the notes of the vault
ScanOrders(paths) ==
  {o \in [1..Cardinality(paths) -> paths] : \A p \in paths : \E i \in DOMAIN o : o[i] = p}

\* what the caller and the disk can observe of one move_note call
MoveOutcome(old_title, new_title, update_links, status, links_updated) ==
  [op |-> "move_note", old_title |-> old_title, new_title |-> new_title,
   update_links |-> update_links, status |-> status,
   links_updated |-> links_updated, pre |-> files]

\* a move_note call that raised before it touched the disk
MoveError(old_title, new_title, update_links, status) ==
  /\ last' = MoveOutcome(old_title, new_title, update_links, status, 0)
  /\ UNCHANGED <<files, symlinks, dirs, server>>

\* files after old_path.rename(new_path)
Renamed(fs, old_path, new_path) ==
  [q \in (DOMAIN fs \ {old_path}) \cup {new_path} |->
     IF q = new_path THEN fs[old_path] ELSE fs[q]]

\* the end of move_note once the note is where it shall be: the scan, when
\* asked for, and the result; an exception of the scan leaves the call
MoveFinish(old_title, new_title, update_links, fs, old_display, new_display) ==
  IF ~update_links
  THEN /\ files' = fs
       /\ last' = MoveOutcome(old_title, new_title, update_links, "moved", 0)
  ELSE \E order \in ScanOrders(DOMAIN fs) :
         \E scan \in {_update_backlinks(fs, order, old_display, new_display)} :
           /\ files' = scan.fs
           /\ last' = MoveOutcome(old_title, new_title, update_links,
                        IF scan.raised THEN "decode_error" ELSE "moved",
                        IF scan.raised THEN 0 ELSE scan.count)

move_note(old_title, new_title, update_links) ==
  \E old \in {resolve_note_path(symlinks, VaultPath, old_title)},
     new \in {resolve_note_path(symlinks, VaultPath, new_title)} :
    IF ~old.ok THEN MoveError(old_title, new_title, update_links, old.error)
    ELSE IF ~new.ok THEN MoveError(old_title, new_title, update_links, new.error)
    ELSE IF FileAt(old.path) \notin DOMAIN files
    THEN MoveError(old_title, new_title, update_links, "note_not_found")
    ELSE IF FileAt(old.path) = FileAt(new.path)
    THEN /\ MoveFinish(old_title, new_title, update_links, files,
                       note_display_name(FileAt(old.path)),
                       note_display_name(FileAt(new.path)))
         /\ UNCHANGED <<symlinks, dirs, server>>
    ELSE IF FileAt(new.path) \in DOMAIN files \/ FileAt(new.path) \in dirs
    THEN MoveError(old_title, new_title, update_links, "note_exists")
    ELSE IF \E a \in Parents(FileAt(new.path)) : a \in DOMAIN files
    THEN MoveError(old_title, new_title, update_links, "mkdir_failed")
    ELSE /\ MoveFinish(old_title, new_title, update_links,
                       Renamed(files, FileAt(old.path), FileAt(new.path)),
                       note_display_name(FileAt(old.path)),
                       note_display_name(FileAt(new.path)))
         /\ dirs' = dirs \cup Parents(FileAt(new.path))
         /\ UNCHANGED <<symlinks, server>>

\* MoveNoteInput: both titles pass the title validator and differ afterwards
MoveNoteInput(old_title, new_title) ==
  LET old == validate_title(old_title)
      new == validate_title(new_title)
  IN  [ok |-> old.ok /\ new.ok /\ old.title # new.title,
       old_title |-> old.title, new_title |-> new.title]

move_obsidian_note(old_title, new_title, update_links) ==
  \E input \in {MoveNoteInput(old_title, new_title)} :
    IF ~input.ok
    THEN MoveError(old_title, new_title, update_links, "invalid_identifier")
    ELSE move_note(input.old_title, input.new_title, update_links)

(***************************************************************************)
(* Inputs of the move specification: the note d/a, which may link to       *)
(* itself, a note b whose text is a run of links, and a note c which links *)
(* to d/a and may be unreadable, read-only or not UTF-8                    *)
(***************************************************************************)
MaxLinks == 2

OldName == <<"d", SLASH, "a">>

\* the four link forms the scan knows, for a display name
Wikilink(name) == <<"[", "[">> \o name \o <<"]", "]">>

AliasedWikilink(name) == <<"[", "[">> \o name \o <<"|", "z", "]", "]">>

MarkdownLink(name) == <<"[", "l", "]", "(">> \o name \o <<")">>

MarkdownLinkMd(name) == <<"[", "l", "]", "(">> \o name \o MD \o <<")">>

\* the link forms of the old display name, a link to another note whose
\* name begins with the old one, a lone bracket, and plain text
LinkTokens ==
  {Wikilink(OldName), AliasedWikilink(OldName), MarkdownLink(OldName),
   MarkdownLinkMd(OldName), Wikilink(OldName \o <<"b">>), <<"[">>, <<"x">>}

RECURSIVE Flatten(_)
Flatten(tokens) ==
  IF tokens = <<>> THEN <<>> ELSE Head(tokens) \o Flatten(Tail(tokens))

TokenRuns == UNION {[1..k -> LinkTokens] : k \in 0..MaxLinks}

MovedPath == VaultPath \o << <<"d">>, <<"a">> \o MD >>

LinkingPath == VaultPath \o << <<"b">> \o MD >>

GuardedPath == VaultPath \o << <<"c">> \o MD >>

GuardedFiles ==
  {MoveFile(Wikilink(OldName), access, utf8) :
     access \in {"rw", "ro", "no"}, utf8 \in BOOLEAN}

MovedTexts == {<<"x">>, Wikilink(OldName) \o <<"x">>}

MoveTitles ==
  {OldName, <<"q">>, <<"n">>, <<"b">>, <<"e", SLASH, "n">>,
   <<"d", SLASH, SLASH, "a">>, <<"b", ".", "m", "d", SLASH, "n">>}

InitMove ==
  /\ \E run \in TokenRuns, guarded \in GuardedFiles, own \in MovedTexts :
       files = [p \in {MovedPath, LinkingPath, GuardedPath} |->
                  IF p = MovedPath THEN MoveFile(own, "rw", TRUE)
                  ELSE IF p = LinkingPath THEN MoveFile(Flatten(run), "rw", TRUE)
                  ELSE guarded]
  /\ symlinks = NoLinks
  /\ ServerAtStart
  /\ dirs = DirsOf(files)
  /\ last = NoCall

NextMove ==
  Idle /\ \E old_title \in {OldName, <<"q">>}, new_title \in MoveTitles,
             update_links \in BOOLEAN :
            move_obsidian_note(old_title, new_title, update_links)

SpecMove == InitMove /\ [][NextMove]_vars


(***************************************************************************)
(* Properties of move_note                                                 *)
(***************************************************************************)
Moved == last.op = "move_note"

\* the statuses of the calls of the move specification
MoveStatuses ==
  {"moved", "decode_error", "note_not_found", "note_exists", "mkdir_failed",
   "invalid_identifier"}

MoveTypeOK == Moved => last.status \in MoveStatuses


\* the backlink scan of the last call began: the note exists, the new path
\* was free or the same, and link updating was asked for
ScanBegan == Moved /\ last.update_links /\ last.status \in {"moved", "decode_error"}

\* the path a file of the disk had before the call: the moved note is the
\* only file whose path changes
SourceOf(p) == IF p \in DOMAIN last.pre THEN p ELSE MovedPath

\* the display names the scan replaces and puts in place
OldDisplay == note_display_name(MovedPath)

NewDisplay ==
  IF DOMAIN files = DOMAIN last.pre THEN OldDisplay
  ELSE note_display_name(CHOOSE p \in DOMAIN files : p \notin DOMAIN last.pre)

CannotBeRead(f) == f.access = "no" \/ ~f.utf8

CannotBeWritten(f) == f.access # "rw"

\* every note of the disk is as the scan leaves it when failures are skipped:
\* a note that cannot be read or written is as it was, every other note has
\* its links rewritten
FailuresSkipped ==
  \A p \in DOMAIN files :
    IF CannotBeRead(last.pre[SourceOf(p)]) \/ CannotBeWritten(last.pre[SourceOf(p)])
    THEN files[p] = last.pre[SourceOf(p)]
    ELSE files[p].text = UpdatedLinks(last.pre[SourceOf(p)].text, OldDisplay, NewDisplay)

\* C24: during the backlink scan of move_note a file that cannot be read or
\* cannot be written, whatever the cause, is skipped and the scan goes on
\* with the remaining files; a failure on a scanned file never aborts
\* move_note, which returns its success status
C24_ScanFailuresSkipped ==
  ScanBegan => last.status = "moved" /\ FailuresSkipped

\* a scanned note whose bytes are not UTF-8 and whose read is permitted
RaisesDecodeError == \E p \in DOMAIN last.pre :
  ~last.pre[p].utf8 /\ last.pre[p].access # "no"

\* the same without notes that are not UTF-8: permission failures, on read
\* and on write, are skipped
PermissionFailuresSkipped ==
  (ScanBegan /\ ~RaisesDecodeError) => last.status = "moved" /\ FailuresSkipped

\* a scan that skipped a note and rewrote another
SkippedAndWentOn ==
  /\ ScanBegan /\ last.status = "moved" /\ last.links_updated >= 1
  /\ \E p \in DOMAIN last.pre : last.pre[p].access # "rw"

\* a move that raised after the note was renamed
AbortedAfterRename ==
  /\ Moved /\ last.status = "decode_error"
  /\ MovedPath \notin DOMAIN files


\* the path the new title of the last call resolves to
NewPath == FileAt(resolve_note_path(symlinks, VaultPath, last.new_title).path)

\* C25: move_note is all-or-nothing: whenever it raises an error, no note
\* has been renamed, created, modified or removed; whenever it succeeds, the
\* old path no longer exists and the new path holds exactly the content the
\* old note had
C25_MoveAllOrNothing ==
  Moved =>
    IF last.status = "moved"
    THEN /\ MovedPath \notin DOMAIN files
         /\ NewPath \in DOMAIN files
         /\ files[NewPath] = last.pre[MovedPath]
    ELSE files = last.pre

\* what holds of the code: an error raised before the rename leaves the
\* vault as it was; a success leaves the note at the new path only, unless
\* both titles name one path, with its content, or, when links are updated,
\* with its content and its links to itself rewritten
MoveBeforeRenameOrDone ==
  Moved =>
    IF last.status = "moved"
    THEN /\ MovedPath \in DOMAIN files <=> NewPath = MovedPath
         /\ NewPath \in DOMAIN files
         /\ files[NewPath].text =
              IF last.update_links
              THEN UpdatedLinks(last.pre[MovedPath].text, OldDisplay, NewDisplay)
              ELSE last.pre[MovedPath].text
    ELSE last.status # "decode_error" => files = last.pre /\ dirs = DirsOf(last.pre)

\* a move that succeeded and rewrote the moved note's link to itself
SelfLinkRewritten ==
  /\ Moved /\ last.status = "moved" /\ NewPath # MovedPath
  /\ files[NewPath] # last.pre[MovedPath]

\* a move that succeeded with the note still at its old path
MovedOntoItself ==
  Moved /\ last.status = "moved" /\ MovedPath \in DOMAIN files

\* a move that raised and left the vault as it was
MoveRefused ==
  Moved /\ last.status = "mkdir_failed" /\ files = last.pre


\* a link of the old display name with the new display name in its place,
\* alias and extension kept; any other piece of text as it is
RenamedToken(token) ==
  IF token = Wikilink(OldName) THEN Wikilink(NewDisplay)
  ELSE IF token = AliasedWikilink(OldName) THEN AliasedWikilink(NewDisplay)
  ELSE IF token = MarkdownLink(OldName) THEN MarkdownLink(NewDisplay)
  ELSE IF token = MarkdownLinkMd(OldName) THEN MarkdownLinkMd(NewDisplay)
  ELSE token

\* after is before with every link of the old display name renamed
LinksRenamed(before, after) ==
  \E run \in TokenRuns :
    /\ Flatten(run) = before
    /\ after = Flatten([k \in DOMAIN run |-> RenamedToken(run[k])])

\* a successful move with link updating
MovedWithLinks == Moved /\ last.status = "moved" /\ last.update_links

\* the notes of the disk whose text is not the text they had before the call
ModifiedNotes == {p \in DOMAIN files : files[p].text # last.pre[SourceOf(p)].text}

\* C26 as claimed: after a successful move_note with link updating, in every
\* other readable note each wikilink and markdown link of the old display
\* name references the new display name with its alias or .md extension
\* preserved, and links_updated is the number of notes other than the moved
\* note whose text was modified
C26_BacklinksOfReadable ==
  MovedWithLinks =>
    /\ \A p \in DOMAIN files \ {NewPath} :
         ~CannotBeRead(last.pre[p]) => LinksRenamed(last.pre[p].text, files[p].text)
    /\ last.links_updated = Cardinality(ModifiedNotes \ {NewPath})

\* C26: after a successful move_note with link updating, in every other note
\* that can be read and written each wikilink and markdown link of the old
\* display name references the new display name with its alias or .md
\* extension preserved, and links_updated is the number of notes, the moved
\* note included, whose text was modified
C26_BacklinksRewritten ==
  MovedWithLinks =>
    /\ \A p \in DOMAIN files \ {NewPath} :
         ~(CannotBeRead(last.pre[p]) \/ CannotBeWritten(last.pre[p]))
           => LinksRenamed(last.pre[p].text, files[p].text)
    /\ last.links_updated = Cardinality(ModifiedNotes)

\* a move that renamed an aliased wikilink and a markdown link with its
\* extension in one note and counted the moved note as well
C26_Witness ==
  /\ MovedWithLinks /\ NewPath # MovedPath
  /\ last.pre[LinkingPath].text = AliasedWikilink(OldName) \o MarkdownLinkMd(OldName)
  /\ files[LinkingPath].text = AliasedWikilink(NewDisplay) \o MarkdownLinkMd(NewDisplay)
  /\ NewPath \in ModifiedNotes
  /\ last.links_updated >= 2

\* a readable note that kept its link because it cannot be written
ReadOnlyKeptLink ==
  /\ MovedWithLinks /\ NewPath # MovedPath
  /\ last.pre[GuardedPath].access = "ro" /\ last.pre[GuardedPath].utf8
  /\ files[GuardedPath] = last.pre[GuardedPath]


(***************************************************************************)
(* Session state: the active vault of a client session.  A session object  *)
(* lives at an address of the process; id(ctx.session) is that address,    *)
(* and the allocator may give the address of a freed object to a new one.  *)
(* A session record keeps, next to the address, what the model needs to    *)
(* state the properties: whether the object is alive, what the session     *)
(* itself selected last, and whether its key was unused when it was opened.*)
(***************************************************************************)
MaxSessions == 3

MaxAddresses == 2

Addresses == 1..MaxAddresses

\* VAULT_CONFIGURATION: the configured vaults and the default among them
VaultNames == {"main", "work"}

default_vault == "main"

\* the vault names a caller may send: the configured ones and an unknown one
SentVaults == VaultNames \cup {"nope"}

\* get_session_key: id(ctx.session)
get_session_key(s) == sessions[s].address

LiveSessions == {s \in DOMAIN sessions : sessions[s].alive}

\* what the caller and the process can observe of one session call
SessionOutcome(op, s, vault, status, result) ==
  [op |-> op, session |-> s, vault |-> vault, status |-> status, result |-> result]

\* a client connects: the transport creates a session object at an address
\* no living session object has
open_session ==
  /\ Cardinality(DOMAIN sessions) < MaxSessions
  /\ \E a \in Addresses \ {sessions[s].address : s \in LiveSessions} :
       \E n \in {Cardinality(DOMAIN sessions) + 1} :
         /\ sessions' = [s \in DOMAIN sessions \cup {n} |->
                           IF s = n
                           THEN [address |-> a, alive |-> TRUE, selected |-> "",
                                 fresh |-> a \notin DOMAIN _ACTIVE_VAULTS]
                           ELSE sessions[s]]
         /\ last' = SessionOutcome("open_session", n, "", "opened", "")
  /\ UNCHANGED <<files, symlinks, dirs, _ACTIVE_VAULTS, pending>>

\* the client disconnects: the session object is freed; nothing removes its
\* entry from _ACTIVE_VAULTS
close_session(s) ==
  /\ s \in LiveSessions
  /\ sessions' = [sessions EXCEPT ![s].alive = FALSE]
  /\ last' = SessionOutcome("close_session", s, "", "closed", "")
  /\ UNCHANGED <<files, symlinks, dirs, _ACTIVE_VAULTS, pending>>

set_active_vault(s, vault_name) ==
  /\ s \in LiveSessions
  /\ IF vault_name \notin VaultNames
     THEN /\ last' = SessionOutcome("set_active_vault", s, vault_name, "unknown_vault", "")
          /\ UNCHANGED <<_ACTIVE_VAULTS, sessions>>
     ELSE /\ _ACTIVE_VAULTS' =
               [k \in DOMAIN _ACTIVE_VAULTS \cup {get_session_key(s)} |->
                  IF k = get_session_key(s) THEN vault_name ELSE _ACTIVE_VAULTS[k]]
          /\ sessions' = [sessions EXCEPT ![s].selected = vault_name]
          /\ last' = SessionOutcome("set_active_vault", s, vault_name, "selected",
                                    vault_name)
  /\ UNCHANGED <<files, symlinks, dirs, pending>>

\* get_active_vault: _ACTIVE_VAULTS.get(get_session_key(ctx), default_vault)
get_active_vault(s) ==
  IF get_session_key(s) \in DOMAIN _ACTIVE_VAULTS
  THEN _ACTIVE_VAULTS[get_session_key(s)] ELSE default_vault

\* resolve_vault as every tool calls it: vault is the name the caller gave,
\* "" when none; s is the session of the context, 0 when there is no context
resolve_vault(vault, s) ==
  /\ s \in LiveSessions \cup {0}
  /\ last' =
       IF vault # ""
       THEN IF vault \in VaultNames
            THEN SessionOutcome("resolve_vault", s, vault, "resolved", vault)
            ELSE SessionOutcome("resolve_vault", s, vault, "unknown_vault", "")
       ELSE IF s # 0
       THEN SessionOutcome("resolve_vault", s, vault, "resolved", get_active_vault(s))
       ELSE SessionOutcome("resolve_vault", s, vault, "resolved", default_vault)
  /\ UNCHANGED <<files, symlinks, dirs, server>>

InitSession ==
  /\ files = NoFiles
  /\ symlinks = NoLinks
  /\ dirs = {VaultPath}
  /\ ServerAtStart
  /\ last = NoCall

NextSession ==
  \/ open_session
  \/ \E s \in DOMAIN sessions : close_session(s)
  \/ \E s \in DOMAIN sessions, vault_name \in SentVaults : set_active_vault(s, vault_name)
  \/ \E s \in DOMAIN sessions \cup {0}, vault \in SentVaults \cup {""} :
       resolve_vault(vault, s)

SpecSession == InitSession /\ [][NextSession]_vars

(***************************************************************************)
(* Properties of the session state                                         *)
(***************************************************************************)
\* a tool call of a session that names no vault
ResolvedDefault ==
  last.op = "resolve_vault" /\ last.vault = "" /\ last.session # 0

\* what the session of the last call selected itself, the configured default
\* when it never selected
OwnSelection ==
  IF sessions[last.session].selected = "" THEN default_vault
  ELSE sessions[last.session].selected

\* C27: for any sequence of sessions being opened, closed and calling
\* set_active_vault or tools, the vault a session gets when it names no
\* vault is the one that same session last selected, or the configured
\* default when it never selected one; a selection of another session,
\* one that has ended included, never changes what a session gets
C27_SessionAffinity == ResolvedDefault => last.result = OwnSelection

\* the same for the sessions whose key no earlier session had left an entry
\* under, and for those that have selected a vault themselves
AffinityOfFreshKeys ==
  (ResolvedDefault /\ (sessions[last.session].fresh
                         \/ sessions[last.session].selected # ""))
    => last.result = OwnSelection

\* a session that never selected a vault gets the vault an ended session
\* selected
InheritedSelection ==
  /\ ResolvedDefault
  /\ sessions[last.session].selected = ""
  /\ last.result # default_vault

\* two living sessions with different selections, one of them served
TwoSessionsApart ==
  /\ ResolvedDefault /\ last.result = "work"
  /\ \E t \in LiveSessions : t # last.session /\ sessions[t].selected = "main"


(***************************************************************************)
(* Concurrent callers.  A tool call runs to its end inside one server      *)
(* process; two server processes on one vault interleave at the system     *)
(* calls of the file system.  A read-modify-write operation is three       *)
(* steps: read_text, then write_text as open(mode "w"), which truncates    *)
(* the file, and the write of the whole text at offset 0 on close.         *)
(***************************************************************************)
_combine_with_newline(left, right) ==
  IF left = <<>> THEN right
  ELSE IF right = <<>> THEN left
  ELSE IF ~EndsWith(left, <<NL>>) /\ ~StartsWith(right, <<NL>>)
       THEN left \o <<NL>> \o right
  ELSE left \o right

\* the text an operation computes from the text it read: updated
UpdatedText(op, text, heading, content) ==
  IF op = "append_to_note" THEN _combine_with_newline(text, content)
  ELSE InsertAfterText(text, _locate_heading(text, heading).headings[
                               _locate_heading(text, heading).index], content)

\* the operation raises after its read: the heading is not in the text
RaisesAfterRead(op, text, heading) ==
  op = "insert_after_heading" /\ ~_locate_heading(text, heading).found

\* the file after a write of data at offset 0
WrittenAtStart(disk, data) == data \o Slice(disk, Len(data), Len(disk))

RacePath == FileAt(resolve_note_path(symlinks, VaultPath, NoteTitle).path)

\* what has happened so far: the steps in their order, and per caller the
\* operation, the text it read and the text it computed
RaceOutcome(events, calls) == [op |-> "race", events |-> events, calls |-> calls]

NoRace == RaceOutcome(<<>>, [c \in {} |-> 0])

\* append_to_note and insert_after_heading up to and including read_text
read_note(c, op, heading, content) ==
  /\ c \notin DOMAIN last.calls
  /\ RacePath \in DOMAIN files
  /\ \E text \in {ReadText(files[RacePath])} :
       \E call \in {[op |-> op, heading |-> heading, content |-> content,
                     read |-> text,
                     raised |-> RaisesAfterRead(op, text, heading),
                     updated |-> IF RaisesAfterRead(op, text, heading) THEN <<>>
                                 ELSE UpdatedText(op, text, heading, content)]} :
         /\ last' = RaceOutcome(Append(last.events, <<c, "read">>),
                                [d \in DOMAIN last.calls \cup {c} |->
                                   IF d = c THEN call ELSE last.calls[d]])
         /\ pending' = IF call.raised THEN pending
                       ELSE [d \in DOMAIN pending \cup {c} |->
                               IF d = c THEN "read" ELSE pending[d]]
  /\ UNCHANGED <<files, symlinks, dirs, _ACTIVE_VAULTS, sessions>>

\* mutant of open_for_write: the file is opened without truncation
open_for_write_keep(c) ==
  /\ c \in DOMAIN pending /\ pending[c] = "read"
  /\ pending' = [pending EXCEPT ![c] = "opened"]
  /\ last' = RaceOutcome(Append(last.events, <<c, "open">>), last.calls)
  /\ UNCHANGED <<files, symlinks, dirs, _ACTIVE_VAULTS, sessions>>

\* write_text: open(mode "w") truncates the file
open_for_write(c) ==
  /\ c \in DOMAIN pending /\ pending[c] = "read"
  /\ files' = [files EXCEPT ![RacePath] = <<>>]
  /\ pending' = [pending EXCEPT ![c] = "opened"]
  /\ last' = RaceOutcome(Append(last.events, <<c, "open">>), last.calls)
  /\ UNCHANGED <<symlinks, dirs, _ACTIVE_VAULTS, sessions>>

\* write_text: the text is written at the start of the file and the file is
\* closed; the call returns
write_and_close(c) ==
  /\ c \in DOMAIN pending /\ pending[c] = "opened"
  /\ files' = [files EXCEPT ![RacePath] = WrittenAtStart(@, last.calls[c].updated)]
  /\ pending' = [d \in DOMAIN pending \ {c} |-> pending[d]]
  /\ last' = RaceOutcome(Append(last.events, <<c, "write">>), last.calls)
  /\ UNCHANGED <<symlinks, dirs, _ACTIVE_VAULTS, sessions>>

(***************************************************************************)
(* Inputs of the race specification: two callers, one operation each       *)
(***************************************************************************)
Callers == {1, 2}

RaceTexts == {<<HASH, SP, "A", NL, "x", NL>>, <<HASH, SP, "A">>, <<"x">>}

RaceContents == {<<"y">>, <<NL, "z", "z", "z">>}

InitRace ==
  /\ files \in {[p \in {NotePath} |-> text] : text \in RaceTexts}
  /\ symlinks = NoLinks
  /\ dirs = DirsOf(files)
  /\ ServerAtStart
  /\ last = NoRace

NextRace ==
  \/ \E c \in Callers, content \in RaceContents :
       read_note(c, "append_to_note", <<>>, content)
  \/ \E c \in Callers, content \in RaceContents :
       read_note(c, "insert_after_heading", <<"a">>, content)
  \/ \E c \in Callers : open_for_write(c)
  \/ \E c \in Callers : write_and_close(c)

SpecRace == InitRace /\ [][NextRace]_vars

(***************************************************************************)
(* Properties of concurrent callers                                        *)
(***************************************************************************)
\* the position of a step in the order of events, 0 when it has not happened
EventAt(c, step) ==
  IF \E k \in DOMAIN last.events : last.events[k] = <<c, step>>
  THEN CHOOSE k \in DOMAIN last.events : last.events[k] = <<c, step>>
  ELSE 0

\* both operations have written, and both read before either opened the
\* file for writing
Interleaved ==
  /\ \A c \in Callers : EventAt(c, "write") > 0
  /\ \A c, d \in Callers : EventAt(c, "read") < EventAt(d, "open")

\* the caller whose write came last
LastWriter == CHOOSE c \in Callers : \A d \in Callers : EventAt(d, "write") <= EventAt(c, "write")

\* the text a caller's operation computes from the text it read
OutputOf(c) ==
  UpdatedText(last.calls[c].op, last.calls[c].read, last.calls[c].heading,
              last.calls[c].content)

\* C28 as claimed: when two read-modify-write operations on one note
\* interleave, both reading before either writes, the final content is the
\* complete output of the operation that wrote last, computed from the text
\* it read: no merge, never a mixture of the two outputs
C28_LastWriterWins ==
  Interleaved => files[RacePath] = OutputOf(LastWriter)

\* the write_text calls do not overlap: one has written and closed before
\* the other opens the file
WritesApart ==
  \E c, d \in Callers : c # d /\ EventAt(c, "write") < EventAt(d, "open")

\* C28: when two read-modify-write operations on one note interleave, both
\* reading before either writes, and their file writes do not overlap, the
\* final content is the complete output of the operation that wrote last,
\* computed from the text it read: no merge, never a mixture
C28_LastWriteWinsApart ==
  (Interleaved /\ WritesApart) => files[RacePath] = OutputOf(LastWriter)

\* an append and an insert that read the same text and wrote one after the
\* other: the note holds the insert alone
C28_Witness ==
  /\ Interleaved /\ WritesApart
  /\ \E c \in Callers :
       /\ c # LastWriter
       /\ last.calls[c].op = "append_to_note"
       /\ last.calls[LastWriter].op = "insert_after_heading"
       /\ last.calls[c].read = last.calls[LastWriter].read
       /\ OutputOf(c) # OutputOf(LastWriter)
       /\ Len(OutputOf(c)) > Len(OutputOf(LastWriter))
       /\ files[RacePath] = OutputOf(LastWriter)

\* overlapping writes left the last output followed by the end of the other
MixedOutputs ==
  /\ Interleaved /\ ~WritesApart
  /\ \E c \in Callers :
       /\ c # LastWriter
       /\ files[RacePath] # OutputOf(LastWriter)
       /\ files[RacePath] = WrittenAtStart(OutputOf(c), OutputOf(LastWriter))


(***************************************************************************)
(* The sanitizer on its own: one call of _ensure_valid_yaml on a metadata  *)
(* dictionary, which it changes in place when it returns                   *)
(***************************************************************************)
MaxItems == 2

\* scalars, a date, and a Python set
PlainValues ==
  {YStr("a"), YInt(1), YBool(TRUE), YNull, YDate("2025-10-26"), YSet}

ListsOf(values) == {YList(items) : items \in UNION {[1..k -> values] : k \in 0..MaxItems}}

\* the plain values, lists of them, and mappings of one field: a plain value
\* under a key, a value under a blank key
NestedValues ==
  PlainValues \cup ListsOf(PlainValues)
    \cup {YMap(Key("owner", v)) : v \in PlainValues}
    \cup {YMap(Key(" ", YInt(1)))}

\* the dictionaries a caller can hand over: a nested value under a key, a
\* nested value as the second item of a list, two fields that both fail, a
\* blank key, and a string over the size cap
SanitizeInputs ==
  {Key("project", v) : v \in NestedValues}
    \cup {Key("tags", YList(<<YStr("a"), v>>)) : v \in NestedValues}
    \cup {[k \in {"project", "tags"} |-> IF k = "project" THEN v ELSE w] :
            v \in {YSet, YMap(Key(" ", YInt(1))), YDate("2025-10-26")},
            w \in {YSet, YMap(Key(" ", YInt(1)))}}
    \cup {Key(" ", YInt(1)), Key("big", YStr(BigString)), EmptyMap}

\* the dictionary before the call, and after it what the call returned or
\* raised and the dictionary as the call left it
SanitizeOutcome(op, input, ok, error, path, after) ==
  [op |-> op, input |-> input, ok |-> ok, error |-> error, path |-> path,
   after |-> after]

\* _ensure_valid_yaml(metadata) as a caller sees it: metadata.clear() and
\* metadata.update(sanitized) are its last statements, no raise comes later
ensure_valid_yaml_call(metadata) ==
  /\ last.op = "none"
  /\ last.input = metadata
  /\ \E r \in {_ensure_valid_yaml(metadata)} :
       last' = SanitizeOutcome("_ensure_valid_yaml", metadata, r.ok, r.error, r.path,
                               IF r.ok THEN r.metadata ELSE metadata)
  /\ UNCHANGED <<files, symlinks, dirs, server>>

InitSanitize ==
  /\ files = NoFiles
  /\ symlinks = NoLinks
  /\ dirs = {VaultPath}
  /\ ServerAtStart
  /\ \E metadata \in SanitizeInputs :
       last = SanitizeOutcome("none", metadata, FALSE, "", <<>>, metadata)

NextSanitize == \E metadata \in SanitizeInputs : ensure_valid_yaml_call(metadata)

SpecSanitize == InitSanitize /\ [][NextSanitize]_vars

(***************************************************************************)
(* Properties of the sanitizer                                             *)
(***************************************************************************)
SanitizeCalled == last.op = "_ensure_valid_yaml"

\* only strings, numbers, booleans, null, lists and maps with non-empty
\* string keys
RECURSIVE YamlSafe(_)
YamlSafe(value) ==
  CASE value[1] \in {"str", "int", "bool", "null", "nan"} -> TRUE
    [] value[1] = "list" -> \A i \in 1..Len(value[2]) : YamlSafe(value[2][i])
    [] value[1] = "map" ->
         \A k \in DOMAIN value[2] : ~BlankKey(k) /\ YamlSafe(value[2][k])
    [] OTHER -> FALSE

\* b is a with every date replaced by its ISO string and nothing else changed
RECURSIVE DatesAsIso(_, _)
DatesAsIso(a, b) ==
  CASE a[1] = "date" -> b = YStr(a[2])
    [] a[1] = "list" ->
         /\ b[1] = "list" /\ Len(b[2]) = Len(a[2])
         /\ \A i \in 1..Len(a[2]) : DatesAsIso(a[2][i], b[2][i])
    [] a[1] = "map" ->
         /\ b[1] = "map" /\ DOMAIN b[2] = DOMAIN a[2]
         /\ \A k \in DOMAIN a[2] : DatesAsIso(a[2][k], b[2][k])
    [] OTHER -> b = a

\* the value a path in dot/bracket notation leads to in a structure,
\* <<"none">> when it leads nowhere
RECURSIVE Follow(_, _)
Follow(value, path) ==
  IF path = <<>> THEN value
  ELSE IF path[1] = "["
  THEN IF /\ value[1] = "list" /\ Len(path) >= 3 /\ path[3] = "]"
          /\ \E i \in 1..Len(value[2]) : IndexText(i - 1) = path[2]
       THEN Follow(value[2][CHOOSE i \in 1..Len(value[2]) : IndexText(i - 1) = path[2]],
                   SubSeq(path, 4, Len(path)))
       ELSE <<"none">>
  ELSE IF path[1] = "."
  THEN IF value[1] = "map" /\ Len(path) >= 2 /\ path[2] \in DOMAIN value[2]
       THEN Follow(value[2][path[2]], SubSeq(path, 3, Len(path)))
       ELSE <<"none">>
  ELSE IF value[1] = "map" /\ path[1] \in DOMAIN value[2]
       THEN Follow(value[2][path[1]], Tail(path))
       ELSE <<"none">>

\* the call succeeded and left a clean structure with the dates as strings
SanitizedClean ==
  /\ last.ok
  /\ YamlSafe(YMap(last.after))
  /\ DatesAsIso(YMap(last.input), YMap(last.after))

\* the call raised the unsupported-type error, the path it names leads to a
\* value of an unsupported type, and the dictionary is as it was
UnsupportedNamed ==
  /\ ~last.ok /\ last.error = "unsupported_type"
  /\ last.path # <<>> /\ Follow(YMap(last.input), last.path) = YSet
  /\ last.after = last.input

\* C30 as claimed: sanitize either fails with an unsupported-type error that
\* names the path of the offending field in dot/bracket notation and leaves
\* its input unchanged, or succeeds leaving only strings, numbers, booleans,
\* null, lists and maps with non-empty string keys, every date replaced by its
\* ISO-8601 string
C30_SanitizeTwoOutcomes ==
  SanitizeCalled => SanitizedClean \/ UnsupportedNamed

\* the call raised for a key that is no non-empty string or for the size of
\* the dump, and the dictionary is as it was
KeyOrSizeRefused ==
  /\ ~last.ok /\ last.error \in {"invalid_key", "too_large"}
  /\ last.after = last.input

\* C30: sanitize either fails, with an invalid-key error, a too-large error
\* or an unsupported-type error that names the path of the offending field
\* in dot/bracket notation, and leaves its input unchanged, or succeeds
\* leaving only strings, numbers, booleans, null, lists and maps with
\* non-empty string keys, every date replaced by its ISO-8601 string
C30_SanitizeOutcomes ==
  SanitizeCalled => SanitizedClean \/ UnsupportedNamed \/ KeyOrSizeRefused

\* a set under a key of a mapping that is the second item of a list: the
\* error names tags[1].owner
C30_Witness ==
  /\ SanitizeCalled /\ UnsupportedNamed
  /\ last.path = <<"tags", "[", "1", "]", ".", "owner">>

\* a date inside a list came out as its ISO string
DateInListSanitized ==
  /\ SanitizeCalled /\ SanitizedClean
  /\ last.input = Key("project", YList(<<YDate("2025-10-26"), YInt(1)>>))
  /\ last.after = Key("project", YList(<<YStr("2025-10-26"), YInt(1)>>))

\* a dictionary over the size cap was refused
TooLargeRefused == SanitizeCalled /\ last.error = "too_large"

====
